---- MODULE Spec2Model ----
(***************************************************************************)
(* CrisisMap AI: the retrieval-augmented response pipeline.                *)
(*   crisismap_ai/models/llm_response.py  (LLMResponseGenerator)           *)
(*   crisismap_ai/api/app.py              (crisis_query, llm_response)     *)
(* Text is modelled as a sequence of one-character strings, so that the    *)
(* regular-expression passes of the normalizer and the string splitting    *)
(* of the source extractor are computed character by character.            *)
(***************************************************************************)
EXTENDS Integers, Sequences, FiniteSets, TLC

(***************************************************************************)
(* Characters and the Python string primitives used by the code.           *)
(***************************************************************************)
LowerLetters ==
    <<"a", "b", "c", "d", "e", "f", "g", "h", "i", "j", "k", "l", "m",
      "n", "o", "p", "q", "r", "s", "t", "u", "v", "w", "x", "y", "z">>
UpperLetters ==
    <<"A", "B", "C", "D", "E", "F", "G", "H", "I", "J", "K", "L", "M",
      "N", "O", "P", "Q", "R", "S", "T", "U", "V", "W", "X", "Y", "Z">>
Digits == {"0", "1", "2", "3", "4", "5", "6", "7", "8", "9"}

\* the characters matched by \s and removed by str.strip()
Whitespace == {" ", "\n", "\t"}
\* the character class [.!?]
Terminators == {".", "!", "?"}

IsLower(c) == \E i \in 1..26 : LowerLetters[i] = c
IsUpper(c) == \E i \in 1..26 : UpperLetters[i] = c
IsAlpha(c) == IsLower(c) \/ IsUpper(c)
IsAlnum(c) == IsAlpha(c) \/ c \in Digits
ToUpper(c) == IF IsLower(c) THEN UpperLetters[CHOOSE i \in 1..26 : LowerLetters[i] = c] ELSE c
ToLower(c) == IF IsUpper(c) THEN LowerLetters[CHOOSE i \in 1..26 : UpperLetters[i] = c] ELSE c
LowerText(s) == [i \in 1..Len(s) |-> ToLower(s[i])]

MinInt(a, b) == IF a <= b THEN a ELSE b
MinOf(S) == CHOOSE x \in S : \A y \in S : x <= y
MaxOf(S) == CHOOSE x \in S : \A y \in S : x >= y

\* p occurs in s at index i
MatchAt(s, p, i) ==
    /\ i >= 1
    /\ i + Len(p) - 1 <= Len(s)
    /\ \A k \in 1..Len(p) : s[i + k - 1] = p[k]
\* str.find from index i (1-based); 0 when absent
FindFrom(s, p, i) ==
    LET hits == {j \in i..(Len(s) - Len(p) + 1) : MatchAt(s, p, j)}
    IN  IF hits = {} THEN 0 ELSE MinOf(hits)
Find(s, p) == FindFrom(s, p, 1)
RFind(s, p) ==
    LET hits == {j \in 1..(Len(s) - Len(p) + 1) : MatchAt(s, p, j)}
    IN  IF hits = {} THEN 0 ELSE MaxOf(hits)
Contains(s, p) == Find(s, p) # 0
StartsWith(s, p) == MatchAt(s, p, 1)
EndsWith(s, p) == Len(p) <= Len(s) /\ MatchAt(s, p, Len(s) - Len(p) + 1)
From(s, i) == SubSeq(s, i, Len(s))

\* str.strip()
Strip(s) ==
    LET keep == {i \in 1..Len(s) : s[i] \notin Whitespace}
    IN  IF keep = {} THEN <<>> ELSE SubSeq(s, MinOf(keep), MaxOf(keep))

\* the end of the run of whitespace that starts at index i
RECURSIVE RunEnd(_, _)
RunEnd(s, i) ==
    IF i + 1 <= Len(s) /\ s[i + 1] \in Whitespace THEN RunEnd(s, i + 1) ELSE i

\* str.split(sep): every non-overlapping occurrence, left to right
RECURSIVE SplitAll(_, _, _)
SplitAll(s, sep, from) ==
    LET k == FindFrom(s, sep, from)
    IN  IF k = 0 THEN <<SubSeq(s, from, Len(s))>>
        ELSE <<SubSeq(s, from, k - 1)>> \o SplitAll(s, sep, k + Len(sep))

\* sep.join(parts)
RECURSIVE Join(_, _)
Join(parts, sep) ==
    IF parts = <<>> THEN <<>>
    ELSE IF Len(parts) = 1 THEN parts[1]
    ELSE parts[1] \o sep \o Join(Tail(parts), sep)

\* str.split(): the maximal runs of non-whitespace characters
WordStarts(s) ==
    {i \in 1..Len(s) : s[i] \notin Whitespace /\ (i = 1 \/ s[i - 1] \in Whitespace)}
WordCount(s) == Cardinality(WordStarts(s))

NLNL ==
    <<"\n", "\n">>
NL ==
    <<"\n">>
Bold ==
    <<"*", "*">>
SourcesMarker ==
    <<"\n", "\n", "*", "*", "S", "o", "u", "r", "c", "e", "s", ":", "*", "*", "\n">>
SourcesLiteral ==
    <<"*", "*", "S", "o", "u", "r", "c", "e", "s", ":", "*", "*">>

(***************************************************************************)
(* LLMResponseGenerator._format_response_text                               *)
(***************************************************************************)
\* the indexes at which r'[.!?][\s\n]+' matches
separator_starts(s) ==
    {i \in 1..(Len(s) - 1) : s[i] \in Terminators /\ s[i + 1] \in Whitespace}

\* re.split(r'([.!?][\s\n]+)', s): the parts and the captured separators
RECURSIVE re_split_from(_, _, _)
re_split_from(s, starts, from) ==
    LET hits == {i \in starts : i >= from}
    IN  IF hits = {} THEN <<SubSeq(s, from, Len(s))>>
        ELSE LET k == MinOf(hits)
                 e == RunEnd(s, k)
             IN  <<SubSeq(s, from, k - 1), SubSeq(s, k, e)>>
                 \o re_split_from(s, starts, e + 1)
re_split(s) == re_split_from(s, separator_starts(s), 1)

\* re.match(r'^[a-z]', s)
MatchLower(s) == s # <<>> /\ IsLower(s[1])
\* s[0].upper() + s[1:]
UpperFirst(s) == <<ToUpper(s[1])>> \o Tail(s)
StartsWithQuote(s) == s # <<>> /\ s[1] \in {"'", "\""}

\* re.match(r'[.!?][\s\n]+', part)
IsSeparator(part) ==
    Len(part) >= 2 /\ part[1] \in Terminators /\ part[2] \in Whitespace

\* the first loop over the sentences (lines 487-506)
RECURSIVE capitalize_sentences(_, _)
capitalize_sentences(sentences, i) ==
    IF i > Len(sentences) THEN <<>>
    ELSE IF i < Len(sentences) /\ IsSeparator(sentences[i + 1])
    THEN LET sentence == sentences[i] \o sentences[i + 1]
             fixed == IF /\ sentence # <<>>
                         /\ ~StartsWithQuote(Strip(sentence))
                         /\ Len(Strip(sentence)) > 0
                         /\ MatchLower(Strip(sentence))
                      THEN UpperFirst(sentence) ELSE sentence
         IN  fixed \o capitalize_sentences(sentences, i + 2)
    ELSE (IF Strip(sentences[i]) # <<>>
          THEN IF MatchLower(Strip(sentences[i]))
               THEN UpperFirst(sentences[i]) ELSE sentences[i]
          ELSE <<>>)
         \o capitalize_sentences(sentences, i + 1)

\* re.sub(r'\s*\n\s*', ' ', s): every run of whitespace that holds a newline
\* becomes one space
Dropped == ""
Kept(c) == c # Dropped
NotNewline(c) == c # "\n"
\* the substitution with an empty replacement, which glues the words around
\* a newline together
clean_newlines_glued(s) == SelectSeq(s, NotNewline)
clean_newlines(s) ==
    LET newlines == {j \in 1..Len(s) : s[j] = "\n"}
        in_run(i) == \E j \in newlines :
                        \A k \in MinInt(i, j)..(IF i <= j THEN j ELSE i) :
                            s[k] \in Whitespace
        marks == [i \in 1..Len(s) |->
                    IF s[i] \in Whitespace /\ in_run(i)
                    THEN IF i > 1 /\ s[i - 1] \in Whitespace THEN Dropped ELSE " "
                    ELSE s[i]]
    IN  IF newlines = {} THEN s ELSE SelectSeq(marks, Kept)

\* the loop over the sentences of one paragraph (lines 525-545)
RECURSIVE capitalize_paragraph(_, _)
capitalize_paragraph(para_sentences, i) ==
    IF i > Len(para_sentences) THEN <<>>
    ELSE IF i < Len(para_sentences) /\ IsSeparator(para_sentences[i + 1])
    THEN LET sentence == para_sentences[i] \o para_sentences[i + 1]
             fixed == IF i = 1 /\ sentence # <<>> /\ MatchLower(sentence)
                      THEN UpperFirst(sentence) ELSE sentence
         IN  fixed \o capitalize_paragraph(para_sentences, i + 2)
    ELSE (IF Strip(para_sentences[i]) # <<>>
          THEN IF i = 1 /\ MatchLower(para_sentences[i])
               THEN UpperFirst(para_sentences[i]) ELSE para_sentences[i]
          ELSE <<>>)
         \o capitalize_paragraph(para_sentences, i + 1)

\* one paragraph of the second pass (lines 517-552)
format_paragraph(paragraph) ==
    LET clean_paragraph == clean_newlines(Strip(paragraph))
        joined == capitalize_paragraph(re_split(clean_paragraph), 1)
    IN  IF MatchLower(joined) THEN UpperFirst(joined) ELSE joined

\* the paragraphs that are kept (line 517), each formatted
RECURSIVE format_paragraphs(_, _)
format_paragraphs(paragraphs, i) ==
    IF i > Len(paragraphs) THEN <<>>
    ELSE (IF Strip(paragraphs[i]) # <<>>
          THEN <<format_paragraph(paragraphs[i])>> ELSE <<>>)
         \o format_paragraphs(paragraphs, i + 1)

Noun_israel ==
    <<"i", "s", "r", "a", "e", "l">>
Noun_iran ==
    <<"i", "r", "a", "n">>
Noun_israeli ==
    <<"i", "s", "r", "a", "e", "l", "i">>
Noun_iranian ==
    <<"i", "r", "a", "n", "i", "a", "n">>
Noun_monday ==
    <<"m", "o", "n", "d", "a", "y">>
Noun_tuesday ==
    <<"t", "u", "e", "s", "d", "a", "y">>
Noun_wednesday ==
    <<"w", "e", "d", "n", "e", "s", "d", "a", "y">>
Noun_thursday ==
    <<"t", "h", "u", "r", "s", "d", "a", "y">>
Noun_friday ==
    <<"f", "r", "i", "d", "a", "y">>
Noun_saturday ==
    <<"s", "a", "t", "u", "r", "d", "a", "y">>
Noun_sunday ==
    <<"s", "u", "n", "d", "a", "y">>
PossessiveSuffix ==
    <<"'", "s">>
ProperNouns ==
    <<Noun_israel, Noun_iran, Noun_israeli, Noun_iranian, Noun_monday, Noun_tuesday,
      Noun_wednesday, Noun_thursday, Noun_friday, Noun_saturday, Noun_sunday>>
PossessiveNouns == <<Noun_israel, Noun_iran, Noun_israeli, Noun_iranian>>

\* re.sub(r'(?<![A-Za-z])' + noun + r'(?![A-Za-z])', noun.capitalize(), s)
capitalize_noun(s, noun) ==
    LET hits == {i \in 1..Len(s) :
                    /\ s[i] = noun[1]
                    /\ MatchAt(s, noun, i)
                    /\ (i = 1 \/ ~IsAlpha(s[i - 1]))
                    /\ (i + Len(noun) > Len(s) \/ ~IsAlpha(s[i + Len(noun)]))}
    IN  IF hits = {} THEN s
        ELSE [i \in 1..Len(s) |-> IF i \in hits THEN ToUpper(s[i]) ELSE s[i]]
\* re.sub(r'(?<![A-Za-z])' + noun + r"'s", noun.capitalize() + "'s", s)
capitalize_possessive(s, noun) ==
    LET hits == {i \in 1..Len(s) :
                    /\ s[i] = noun[1]
                    /\ MatchAt(s, noun \o PossessiveSuffix, i)
                    /\ (i = 1 \/ ~IsAlpha(s[i - 1]))}
    IN  IF hits = {} THEN s
        ELSE [i \in 1..Len(s) |-> IF i \in hits THEN ToUpper(s[i]) ELSE s[i]]

RECURSIVE capitalize_nouns(_, _, _)
capitalize_nouns(s, nouns, i) ==
    IF i > Len(nouns) THEN s
    ELSE capitalize_nouns(capitalize_noun(s, nouns[i]), nouns, i + 1)
RECURSIVE capitalize_possessives(_, _, _)
capitalize_possessives(s, nouns, i) ==
    IF i > Len(nouns) THEN s
    ELSE capitalize_possessives(capitalize_possessive(s, nouns[i]), nouns, i + 1)

\* the header split of lines 465-469
header_split(text) ==
    LET k == Find(text, NLNL)
    IN  IF StartsWith(text, Bold) /\ k # 0
        THEN [header |-> SubSeq(text, 1, k - 1) \o NLNL, content |-> From(text, k + 2)]
        ELSE [header |-> <<>>, content |-> text]

\* the sources split of lines 475-479
sources_split(content) ==
    LET k == Find(content, SourcesMarker)
    IN  IF k # 0
        THEN [processed_content |-> SubSeq(content, 1, k - 1),
              sources_section |-> From(content, k)]
        ELSE [processed_content |-> content, sources_section |-> <<>>]

format_response_text(text) ==
    IF text = <<>> THEN text
    ELSE LET hs == header_split(text)
             ss == sources_split(hs.content)
             formatted_content ==
                 capitalize_sentences(re_split(ss.processed_content), 1)
             formatted_paragraphs ==
                 format_paragraphs(SplitAll(formatted_content, NLNL, 1), 1)
             final_content ==
                 capitalize_possessives(
                     capitalize_nouns(Join(formatted_paragraphs, NLNL), ProperNouns, 1),
                     PossessiveNouns, 1)
         IN  hs.header \o final_content \o ss.sources_section

(***************************************************************************)
(* Source extraction of crisis_query (app.py lines 508-534).               *)
(***************************************************************************)
Unknown == <<"U", "n", "k", "n", "o", "w", "n">>

\* one "-" line of the citation block (lines 518-528)
parse_source_line(line) ==
    LET source_text == Strip(Tail(line))
    IN  IF Contains(source_text, <<"(">>) /\ EndsWith(source_text, <<")">>)
        THEN LET k == RFind(source_text, <<"(">>)
                 source_part == From(source_text, k + 1)
             IN  [title |-> Strip(SubSeq(source_text, 1, k - 1)),
                  source |-> Strip(SubSeq(source_part, 1, Len(source_part) - 1))]
        ELSE [title |-> source_text, source |-> Unknown]

RECURSIVE parse_source_lines(_, _)
parse_source_lines(source_lines, i) ==
    IF i > Len(source_lines) THEN <<>>
    ELSE (IF StartsWith(source_lines[i], <<"-">>)
          THEN <<parse_source_line(source_lines[i])>> ELSE <<>>)
         \o parse_source_lines(source_lines, i + 1)

\* the body of crisis_query after find_and_respond has returned
extract_sources(response) ==
    IF Contains(response, SourcesLiteral)
    THEN LET response_parts == SplitAll(response, SourcesLiteral, 1)
         IN  [response |-> Strip(response_parts[1]),
              sources |-> IF Len(response_parts) > 1
                          THEN parse_source_lines(
                                   SplitAll(Strip(response_parts[2]), NL, 1), 1)
                          ELSE <<>>,
              sources_none |-> FALSE]
    ELSE [response |-> response, sources |-> <<>>, sources_none |-> TRUE]

(***************************************************************************)
(* Evidence items.  A web item is a dict with the keys the scraper always  *)
(* sets (title, source, url, content); a database item is a document whose *)
(* fields may be missing, so a field is tested with "f \in DOMAIN item".   *)
(***************************************************************************)
Has(item, f) == f \in DOMAIN item
\* Python truthiness of item[f]
Truthy(item, f) == Has(item, f) /\ item[f] # <<>>
Take(list, n) == SubSeq(list, 1, MinInt(n, Len(list)))

\* one entry of the call log of a request
Call(op, arg) == [op |-> op, arg |-> arg]

ContentSep == <<" ", "\n", "\n">>

\* lines 153-155: the content of the web items, in order
RECURSIVE web_content(_, _)
web_content(web_data, i) ==
    IF i > Len(web_data) THEN <<>>
    ELSE (IF Truthy(web_data[i], "content")
          THEN web_data[i].content \o ContentSep ELSE <<>>)
         \o web_content(web_data, i + 1)

\* lines 157-158: one citation line per web item
RECURSIVE web_sources_lines(_, _)
web_sources_lines(web_data, i) ==
    IF i > Len(web_data) THEN <<>>
    ELSE (IF Has(web_data[i], "title") /\ Has(web_data[i], "source")
          THEN <<<<"-", " ">> \o web_data[i].title \o <<" ", "(">> \o web_data[i].source \o <<")">>>>
          ELSE <<>>)
         \o web_sources_lines(web_data, i + 1)

\* lines 163-166 and 317-320: text if present and non-empty, else summary
RECURSIVE db_content(_, _)
db_content(events, i) ==
    IF i > Len(events) THEN <<>>
    ELSE (IF Truthy(events[i], "text") THEN events[i].text \o ContentSep
          ELSE IF Truthy(events[i], "summary") THEN events[i].summary \o ContentSep
          ELSE <<>>)
         \o db_content(events, i + 1)

\* the citation lines of the database items, last item first
db_sources_lines_reversed(events, i) ==
    [k \in 1..(Len(events) + 1 - i) |-> <<"-", " ">> \o events[Len(events) + 1 - k].title]
\* lines 168-169: one citation line per database item that has a title
RECURSIVE db_sources_lines(_, _)
db_sources_lines(events, i) ==
    IF i > Len(events) THEN <<>>
    ELSE (IF Has(events[i], "title") THEN <<<<"-", " ">> \o events[i].title>> ELSE <<>>)
         \o db_sources_lines(events, i + 1)

\* the number of database items that supplement web evidence (line 162)
DbSupplementLimit == 3
\* a supplement that is one item longer than the limit
supplement_wider(context_data) == Take(context_data, DbSupplementLimit + 1)
\* lines 161-162: context_data[:3]
supplement(context_data) == Take(context_data, DbSupplementLimit)

\* lines 215-216 and 234-235: "\n\n**Sources:**\n" + "\n".join(sources)
sources_block(sources) ==
    IF sources # <<>> THEN SourcesMarker \o Join(sources, NL) ELSE <<>>

\* lines 178-186
web_prompt(user_query, all_content) ==
    <<"\n", "I", " ", "n", "e", "e", "d", " ", "i", "n", "f", "o", "r", "m", "a", "t", "i", "o", "n", " ", "a", "b", "o", "u", "t", ":", " ">> \o user_query
    \o <<"\n", "\n", "P", "l", "e", "a", "s", "e", " ", "p", "r", "o", "v", "i", "d", "e", " ", "a", " ", "c", "l", "e", "a", "r", ",", " ", "c", "o", "m", "p", "r", "e", "h", "e", "n", "s", "i", "v", "e", " ", "a", "n", "s", "w", "e", "r", " ", "b", "a", "s", "e", "d", " ", "o", "n", "l", "y", " ", "o", "n", " ", "t", "h", "e", " ", "f", "o", "l", "l", "o", "w", "i", "n", "g", " ", "i", "n", "f", "o", "r", "m", "a", "t", "i", "o", "n", ":", "\n", "\n">>
    \o all_content
    \o <<"\n", "\n", "S", "u", "m", "m", "a", "r", "i", "z", "e", " ", "t", "h", "e", " ", "m", "o", "s", "t", " ", "i", "m", "p", "o", "r", "t", "a", "n", "t", " ", "p", "o", "i", "n", "t", "s", " ", "a", "n", "d", " ", "f", "o", "c", "u", "s", " ", "s", "p", "e", "c", "i", "f", "i", "c", "a", "l", "l", "y", " ", "o", "n", " ", "a", "n", "s", "w", "e", "r", "i", "n", "g", " ", "t", "h", "e", " ", "q", "u", "e", "r", "y", ".", " ", "M", "a", "k", "e", " ", "y", "o", "u", "r", " ", "r", "e", "s", "p", "o", "n", "s", "e", " ", "w", "e", "l", "l", "-", "s", "t", "r", "u", "c", "t", "u", "r", "e", "d", ",", " ", "f", "a", "c", "t", "u", "a", "l", ",", " ", "a", "n", "d", " ", "c", "o", "n", "c", "i", "s", "e", ".", " ", "U", "s", "e", " ", "p", "r", "o", "p", "e", "r", " ", "c", "a", "p", "i", "t", "a", "l", "i", "z", "a", "t", "i", "o", "n", " ", "f", "o", "r", " ", "s", "e", "n", "t", "e", "n", "c", "e", "s", " ", "a", "n", "d", " ", "e", "n", "s", "u", "r", "e", " ", "t", "h", "e", " ", "t", "e", "x", "t", " ", "i", "s", " ", "p", "r", "o", "f", "e", "s", "s", "i", "o", "n", "a", "l", "l", "y", " ", "f", "o", "r", "m", "a", "t", "t", "e", "d", ".", "\n">>

\* lines 271-279
db_prompt(user_query, formatted_context) ==
    <<"\n", "I", " ", "n", "e", "e", "d", " ", "i", "n", "f", "o", "r", "m", "a", "t", "i", "o", "n", " ", "a", "b", "o", "u", "t", ":", " ">> \o user_query
    \o <<"\n", "\n", "B", "a", "s", "e", "d", " ", "o", "n", " ", "t", "h", "e", " ", "f", "o", "l", "l", "o", "w", "i", "n", "g", " ", "c", "r", "i", "s", "i", "s", " ", "d", "a", "t", "a", ",", " ", "p", "l", "e", "a", "s", "e", " ", "p", "r", "o", "v", "i", "d", "e", " ", "a", " ", "h", "e", "l", "p", "f", "u", "l", ",", " ", "a", "c", "c", "u", "r", "a", "t", "e", ",", " ", "a", "n", "d", " ", "c", "o", "n", "c", "i", "s", "e", " ", "a", "n", "s", "w", "e", "r", ":", "\n", "\n">>
    \o formatted_context
    \o <<"\n", "\n", "M", "a", "k", "e", " ", "y", "o", "u", "r", " ", "r", "e", "s", "p", "o", "n", "s", "e", " ", "w", "e", "l", "l", "-", "s", "t", "r", "u", "c", "t", "u", "r", "e", "d", ",", " ", "f", "a", "c", "t", "u", "a", "l", ",", " ", "a", "n", "d", " ", "d", "i", "r", "e", "c", "t", "l", "y", " ", "f", "o", "c", "u", "s", "e", "d", " ", "o", "n", " ", "a", "n", "s", "w", "e", "r", "i", "n", "g", " ", "t", "h", "e", " ", "q", "u", "e", "r", "y", ".", " ", "E", "n", "s", "u", "r", "e", " ", "p", "r", "o", "p", "e", "r", " ", "c", "a", "p", "i", "t", "a", "l", "i", "z", "a", "t", "i", "o", "n", " ", "a", "n", "d", " ", "f", "o", "r", "m", "a", "t", "t", "i", "n", "g", " ", "f", "o", "r", " ", "a", " ", "p", "r", "o", "f", "e", "s", "s", "i", "o", "n", "a", "l", " ", "p", "r", "e", "s", "e", "n", "t", "a", "t", "i", "o", "n", ".", "\n">>

\* lines 231, 240, 251, 329, 332: the header of every fallback answer
info_header(user_query) == <<"*", "*", "I", "n", "f", "o", "r", "m", "a", "t", "i", "o", "n", " ", "a", "b", "o", "u", "t", " ">> \o user_query \o <<"*", "*", "\n", "\n">>

DigitChars == <<"1", "2", "3", "4", "5", "6", "7", "8", "9">>

\* str.split() as a list of words
RECURSIVE Words(_, _)
Words(s, i) ==
    LET starts == {j \in i..Len(s) : s[j] \notin Whitespace}
    IN  IF starts = {} THEN <<>>
        ELSE LET b == MinOf(starts)
                 ends == {j \in b..Len(s) : s[j] \in Whitespace}
                 e == IF ends = {} THEN Len(s) + 1 ELSE MinOf(ends)
             IN  <<SubSeq(s, b, e - 1)>> \o Words(s, e)

\* " ".join(text.split()[:n]) + "..." when words were cut
truncate_words(s, n, always_ellipsis) ==
    LET all == Words(s, 1)
        words == Take(all, n)
    IN  Join(words, <<" ">>)
        \o (IF always_ellipsis \/ Len(words) < Len(all) THEN <<".", ".", ".">> ELSE <<>>)

(***************************************************************************)
(* The lazily loaded models.  g is the record of the fields of the         *)
(* LLMResponseGenerator singleton and of the Summarizer singleton.         *)
(***************************************************************************)
\* LLMResponseGenerator._load_summarizer: get_summarizer() returns the
\* module-level singleton, so the load succeeds
load_summarizer(g) == [g EXCEPT !.summarizer = TRUE, !.summarizer_loaded = TRUE]

\* LLMResponseGenerator._load_model: the tokenizer is assigned first, then
\* the model; model_loaded is set only when both have loaded
load_model(g, outcome) ==
    IF outcome = "ok"
    THEN [g EXCEPT !.tokenizer = TRUE, !.model = TRUE, !.model_loaded = TRUE]
    ELSE IF outcome = "fail_model" THEN [g EXCEPT !.tokenizer = TRUE]
    ELSE g

\* lines 172-173 and 265-266
ensure_model(g, outcome) == IF ~g.model_loaded THEN load_model(g, outcome) ELSE g
\* a load attempted by every call, loaded or not
ensure_model_calls_always(g) == <<Call("load_model", 0)>>
ensure_model_calls(g) == IF ~g.model_loaded THEN <<Call("load_model", 0)>> ELSE <<>>

\* Summarizer.summarize(text, max_length, min_length): loads its model on
\* first use (raising when that fails), returns a short text unchanged
summarize(g, text, min_length, out) ==
    IF ~g.summarizer_model /\ ~out.load_ok
    THEN [raised |-> TRUE, text |-> <<>>, g |-> g]
    ELSE LET g1 == [g EXCEPT !.summarizer_model = TRUE]
         IN  IF WordCount(text) < min_length
             THEN [raised |-> FALSE, text |-> text, g |-> g1]
             ELSE IF out.raise
             THEN [raised |-> TRUE, text |-> <<>>, g |-> g1]
             ELSE [raised |-> FALSE, text |-> out.text, g |-> g1]

\* lines 189-190 and 283-284: the encoding returned by the tokenizer is
\* rebuilt as a plain dict of its tensors
encode(prompt) == [type |-> "dict", input_ids |-> prompt]

\* attribute access as the tokenizer's own encoding object would answer it
getattr_of_encoding(obj, name) == [raised |-> FALSE, value |-> obj[name]]
\* obj.name, the attribute access of lines 203-204 and 296-297: a plain dict
\* has keys but no such attribute, so the access raises AttributeError
getattr(obj, name) ==
    IF obj.type = "dict" THEN [raised |-> TRUE, value |-> <<>>]
    ELSE [raised |-> FALSE, value |-> obj[name]]

\* lines 189-208 and 283-301: tokenize, generate, decode.  A causal model
\* returns the prompt followed by its continuation; gen is the outcome of
\* model.generate, reached only when its arguments could be evaluated.
generation_output(prompt, gen) ==
    LET inputs == encode(prompt)
        input_ids == getattr(inputs, "input_ids")
    IN  IF input_ids.raised THEN [raised |-> TRUE, generated |-> FALSE, text |-> <<>>]
        ELSE IF gen.raise THEN [raised |-> TRUE, generated |-> TRUE, text |-> <<>>]
        ELSE [raised |-> FALSE, generated |-> TRUE,
              text |-> (IF gen.echo THEN input_ids.value ELSE <<>>) \o gen.cont]
\* the prompt echo is kept: the decoded text is used as it is
strip_prompt_kept(response_text, prompt) == response_text
\* lines 210-212 and 303-305
strip_prompt(response_text, prompt) ==
    IF StartsWith(response_text, prompt)
    THEN Strip(From(response_text, Len(prompt) + 1))
    ELSE response_text

SummaryMinLength == 100
WebSummaryThreshold == 50
DbSummaryThreshold == 30
TruncateWords == 300
EventTextWords == 100

(***************************************************************************)
(* LLMResponseGenerator._generate_web_based_response (lines 140-256).      *)
(* env.load, env.gen and env.sum are the outcomes of the model load, of    *)
(* the generation and of the summarization of this call.                   *)
(***************************************************************************)
generate_web_based_response(user_query, web_data, context_data, g, env) ==
    LET g1 == IF ~g.summarizer_loaded THEN load_summarizer(g) ELSE g
        all_content == web_content(web_data, 1)
                       \o db_content(supplement(context_data), 1)
        sources == web_sources_lines(web_data, 1)
                   \o db_sources_lines(supplement(context_data), 1)
        g2 == ensure_model(g1, env.load)
        load_calls == ensure_model_calls(g1)
        prompt == web_prompt(user_query, all_content)
        out == generation_output(prompt, env.gen)
        response_text == strip_prompt(out.text, prompt)
        gen_calls == IF g2.model_loaded /\ out.generated THEN <<Call("generate", 0)>>
                     ELSE <<>>
        s == summarize(g2, all_content, SummaryMinLength, env.sum)
        base == [context |-> all_content, citations |-> sources]
    IN  IF g2.model_loaded /\ ~out.raised
        THEN base @@ [text |-> response_text \o sources_block(sources),
                      branch |-> "llm", g |-> g2,
                      calls |-> load_calls \o gen_calls]
        ELSE IF WordCount(all_content) > WebSummaryThreshold
        THEN IF ~s.raised
             THEN base @@ [text |-> info_header(user_query) \o s.text
                                    \o sources_block(sources),
                           branch |-> "summary", g |-> s.g,
                           calls |-> load_calls \o gen_calls
                                     \o <<Call("summarize", 0)>>]
             ELSE base @@ [text |-> info_header(user_query)
                                    \o truncate_words(all_content, TruncateWords, FALSE),
                           branch |-> "truncated", g |-> s.g,
                           calls |-> load_calls \o gen_calls
                                     \o <<Call("summarize", 0)>>]
        ELSE base @@ [text |-> info_header(user_query) \o Strip(all_content),
                      branch |-> "short", g |-> g2,
                      calls |-> load_calls \o gen_calls]

(***************************************************************************)
(* LLMResponseGenerator._format_context (lines 374-424).  The documents of *)
(* the model carry no nested "data" blob.                                  *)
(***************************************************************************)
format_location(event) ==
    LET location_info ==
            (IF Truthy(event, "country") THEN <<event.country>> ELSE <<>>)
            \o (IF Truthy(event, "location") THEN <<event.location>> ELSE <<>>)
    IN  IF location_info # <<>>
        THEN <<"L", "o", "c", "a", "t", "i", "o", "n", ":", " ">> \o Join(location_info, <<",", " ">>) \o NL ELSE <<>>

format_event(event, i) ==
    <<"E", "v", "e", "n", "t", " ">> \o <<DigitChars[i]>> \o <<":", "\n">>
    \o (IF Truthy(event, "title") THEN <<"T", "i", "t", "l", "e", ":", " ">> \o event.title \o NL ELSE <<>>)
    \o (IF Truthy(event, "event_type") THEN <<"T", "y", "p", "e", ":", " ">> \o event.event_type \o NL
        ELSE IF Truthy(event, "category") THEN <<"T", "y", "p", "e", ":", " ">> \o event.category \o NL
        ELSE <<>>)
    \o format_location(event)
    \o (IF Truthy(event, "date") THEN <<"D", "a", "t", "e", ":", " ">> \o event.date \o NL ELSE <<>>)
    \o (IF Truthy(event, "summary") THEN <<"S", "u", "m", "m", "a", "r", "y", ":", " ">> \o event.summary \o NL
        ELSE IF Truthy(event, "text") THEN <<"I", "n", "f", "o", "r", "m", "a", "t", "i", "o", "n", ":", " ">> \o event.text \o NL
        ELSE <<>>)
    \o (IF Truthy(event, "casualties") THEN <<"C", "a", "s", "u", "a", "l", "t", "i", "e", "s", ":", " ">> \o event.casualties \o NL
        ELSE <<>>)
    \o (IF Truthy(event, "impacts") THEN <<"I", "m", "p", "a", "c", "t", "s", ":", " ">> \o event.impacts \o NL ELSE <<>>)

format_context(context_data) ==
    Join([i \in 1..Len(context_data) |-> format_event(context_data[i], i)], NL)

(***************************************************************************)
(* LLMResponseGenerator._generate_db_based_response (lines 258-372).       *)
(***************************************************************************)
\* lines 334-352: one block of the structured answer
structured_event(event, i) ==
    <<"*", "*", "E", "v", "e", "n", "t", " ">> \o <<DigitChars[i]>> \o <<":", " ">>
    \o (IF Has(event, "title") THEN event.title ELSE <<"U", "n", "n", "a", "m", "e", "d", " ", "e", "v", "e", "n", "t">>) \o <<"*", "*", "\n">>
    \o (IF Truthy(event, "date") THEN <<"D", "a", "t", "e", ":", " ">> \o event.date \o NL ELSE <<>>)
    \o (IF Truthy(event, "location") THEN <<"L", "o", "c", "a", "t", "i", "o", "n", ":", " ">> \o event.location \o NL
        ELSE <<>>)
    \o (IF Truthy(event, "summary") THEN <<"S", "u", "m", "m", "a", "r", "y", ":", " ">> \o event.summary \o NL
        ELSE IF Truthy(event, "text")
        THEN <<"I", "n", "f", "o", "r", "m", "a", "t", "i", "o", "n", ":", " ">>
             \o (IF WordCount(event.text) > EventTextWords
                 THEN truncate_words(event.text, EventTextWords, TRUE)
                 ELSE event.text)
             \o NL
        ELSE <<>>)
    \o NL

RECURSIVE structured_events(_, _)
structured_events(events, i) ==
    IF i > Len(events) THEN <<>>
    ELSE structured_event(events[i], i) \o structured_events(events, i + 1)

\* lines 361-372: the answer of the exception handler
RECURSIVE title_list(_, _)
title_list(events, i) ==
    IF i > Len(events) THEN <<>>
    ELSE <<DigitChars[i]>> \o <<".", " ">>
         \o (IF Has(events[i], "title") THEN events[i].title
             ELSE <<"E", "v", "e", "n", "t", " ">> \o <<DigitChars[i]>>)
         \o (IF Truthy(events[i], "date") THEN <<" ", "(">> \o events[i].date \o <<")">>
             ELSE <<>>)
         \o NL
         \o title_list(events, i + 1)

generate_db_based_response(user_query, context_data, g, env) ==
    LET formatted_context == format_context(context_data)
        g1 == ensure_model(g, env.load)
        load_calls == ensure_model_calls(g)
        prompt == db_prompt(user_query, formatted_context)
        out == generation_output(prompt, env.gen)
        response_text == strip_prompt(out.text, prompt)
        gen_calls == IF g1.model_loaded /\ out.generated THEN <<Call("generate", 0)>>
                     ELSE <<>>
        all_text == db_content(context_data, 1)
        g2 == IF ~g1.summarizer_loaded THEN load_summarizer(g1) ELSE g1
        s == summarize(g2, all_text, SummaryMinLength, env.sum)
        base == [context |-> formatted_context, citations |-> <<>>]
    IN  IF g1.model_loaded /\ ~out.raised
        THEN base @@ [text |-> response_text, branch |-> "llm", g |-> g1,
                      calls |-> load_calls \o gen_calls]
        ELSE IF all_text # <<>> /\ WordCount(all_text) > DbSummaryThreshold
                /\ g2.summarizer_loaded
        THEN IF ~s.raised
             THEN base @@ [text |-> info_header(user_query) \o s.text,
                           branch |-> "summary", g |-> s.g,
                           calls |-> load_calls \o gen_calls
                                     \o <<Call("summarize", 0)>>]
             ELSE base @@ [text |-> <<"I", " ", "f", "o", "u", "n", "d", " ", "t", "h", "e", " ", "f", "o", "l", "l", "o", "w", "i", "n", "g", " ", "i", "n", "f", "o", "r", "m", "a", "t", "i", "o", "n", " ", "a", "b", "o", "u", "t", " ", "'">>
                                    \o user_query \o <<"'", ":", "\n", "\n">>
                                    \o title_list(Take(context_data, 5), 1),
                           branch |-> "exception", g |-> s.g,
                           calls |-> load_calls \o gen_calls
                                     \o <<Call("summarize", 0)>>]
        ELSE base @@ [text |-> info_header(user_query)
                               \o structured_events(Take(context_data, 3), 1),
                      branch |-> "structured", g |-> g1,
                      calls |-> load_calls \o gen_calls]

(***************************************************************************)
(* The web evidence source as the aggregator sees it:                      *)
(* WebScraper.search_disaster_info(query, max_results) returns at most     *)
(* max_results items (web_scraper.py line 86), or the call fails.          *)
(***************************************************************************)
search_disaster_info(outcome, max_results) ==
    IF outcome.raise THEN <<>> ELSE Take(outcome.items, max_results)

(***************************************************************************)
(* LLMResponseGenerator.generate_response (lines 99-138).                  *)
(***************************************************************************)
no_information(user_query) ==
    <<"I", " ", "c", "o", "u", "l", "d", "n", "'", "t", " ", "f", "i", "n", "d", " ", "a", "n", "y", " ", "i", "n", "f", "o", "r", "m", "a", "t", "i", "o", "n", " ", "a", "b", "o", "u", "t", " ", "'">> \o user_query
    \o <<"'", ".", " ", "P", "l", "e", "a", "s", "e", " ", "t", "r", "y", " ", "a", " ", "d", "i", "f", "f", "e", "r", "e", "n", "t", " ", "q", "u", "e", "r", "y", " ", "o", "r", " ", "c", "h", "e", "c", "k", " ", "y", "o", "u", "r", " ", "i", "n", "t", "e", "r", "n", "e", "t", " ", "c", "o", "n", "n", "e", "c", "t", "i", "o", "n", ".">>

RetryWebResults == 5

\* lines 128-130 and 133-135: the composed response is formatted and returned
formatted_response(response, path, retry_calls, web_data) ==
    [response EXCEPT !.text = format_response_text(response.text),
                     !.calls = retry_calls \o response.calls]
    @@ [path |-> path, composed |-> response.text, web_data |-> web_data]

\* no second search, whatever the lists hold
needs_web_data_never(context_data, web_data) == FALSE
\* line 112: if not context_data and not web_data
needs_web_data(context_data, web_data) == context_data = <<>> /\ web_data = <<>>

generate_response(user_query, context_data, web_data, g, env) ==
    LET retry == needs_web_data(context_data, web_data)
        web_data2 == IF retry THEN search_disaster_info(env.web2, RetryWebResults)
                     ELSE web_data
        retry_calls == IF retry THEN <<Call("web_search", RetryWebResults)>> ELSE <<>>
    IN  IF retry /\ web_data2 = <<>>
        THEN [text |-> no_information(user_query), branch |-> "none", path |-> "none",
              g |-> g, calls |-> retry_calls, context |-> <<>>, citations |-> <<>>,
              composed |-> <<>>, web_data |-> web_data2]
        ELSE IF web_data2 # <<>>
        THEN formatted_response(
                 generate_web_based_response(user_query, web_data2, context_data, g, env),
                 "web", retry_calls, web_data2)
        ELSE formatted_response(
                 generate_db_based_response(user_query, context_data, g, env),
                 "db", retry_calls, web_data2)

(***************************************************************************)
(* The vector store as the aggregator sees it.  db is the record           *)
(* [connected, ops_collection]: DatabaseConnection._connected and whether  *)
(* CrisisEventOperations.collection is set; reachable says whether the     *)
(* server answers a ping during this request.                              *)
(***************************************************************************)
\* DatabaseConnection.is_connected (db_connection.py lines 65-76)
is_connected(db, reachable) == db.connected /\ reachable
\* CrisisEventOperations.is_db_available (db_operations.py lines 41-43)
is_db_available(db, reachable) == is_connected(db, reachable) /\ db.ops_collection
\* search_by_vector (lines 231-304): at most limit documents, [] when the
\* database is not available
search_by_vector(db, reachable, outcome, limit) ==
    IF ~is_db_available(db, reachable) THEN <<>> ELSE Take(outcome, limit)
\* search_by_text (lines 306-331): embedding + search_by_vector
search_by_text(db, reachable, embed_raise, outcome, limit) ==
    IF ~is_db_available(db, reachable) THEN <<>>
    ELSE IF embed_raise THEN <<>>
    ELSE search_by_vector(db, reachable, outcome, limit)

(***************************************************************************)
(* LLMResponseGenerator.find_and_respond (lines 576-625).                  *)
(***************************************************************************)
FindWebResults == 3

search_error(user_query) ==
    <<"I", " ", "e", "n", "c", "o", "u", "n", "t", "e", "r", "e", "d", " ", "a", "n", " ", "e", "r", "r", "o", "r", " ", "w", "h", "i", "l", "e", " ", "s", "e", "a", "r", "c", "h", "i", "n", "g", " ", "f", "o", "r", " ", "i", "n", "f", "o", "r", "m", "a", "t", "i", "o", "n", " ", "a", "b", "o", "u", "t", " ", "'">> \o user_query
    \o <<"'", ".", " ", "P", "l", "e", "a", "s", "e", " ", "t", "r", "y", " ", "a", "g", "a", "i", "n", " ", "w", "i", "t", "h", " ", "a", " ", "d", "i", "f", "f", "e", "r", "e", "n", "t", " ", "q", "u", "e", "r", "y", ".">>

\* the same fields with the web search logged after the lookups
responded_search_last(r, calls) ==
    [text |-> r.text, g |-> r.g, calls |-> Tail(calls) \o <<Head(calls)>> \o r.calls,
     web_used |-> r.web_data, path |-> r.path, branch |-> r.branch,
     context |-> r.context, citations |-> r.citations, composed |-> r.composed]
\* the fields of a result that come from generate_response; calls are the
\* collaborator calls made before it
responded(r, calls) ==
    [text |-> r.text, g |-> r.g, calls |-> calls \o r.calls,
     web_used |-> r.web_data, path |-> r.path, branch |-> r.branch,
     context |-> r.context, citations |-> r.citations, composed |-> r.composed]

find_and_respond(user_query, max_results, g, db, env) ==
    LET web_data == search_disaster_info(env.web, FindWebResults)
        vec == search_by_vector(db, env.reachable, env.vec, max_results)
        results == IF vec = <<>>
                   THEN search_by_text(db, env.reachable, env.embed_raise,
                                       env.txt, max_results)
                   ELSE vec
        lookup_calls == <<Call("embed", 0), Call("vector_search", max_results)>>
                        \o (IF vec = <<>> THEN <<Call("text_search", max_results)>>
                            ELSE <<>>)
        gathered == [query |-> user_query, web_data |-> web_data,
                     web_failed |-> env.web.raise,
                     db_failed |-> env.embed_raise \/ ~is_db_available(db, env.reachable)]
    IN  IF env.embed_raise
        THEN gathered @@
             [text |-> search_error(user_query), error |-> TRUE,
              g |-> g, db |-> db,
              calls |-> <<Call("web_search", FindWebResults), Call("embed", 0)>>,
              context_data |-> <<>>, web_used |-> web_data,
              path |-> "error", branch |-> "error", context |-> <<>>,
              citations |-> <<>>, composed |-> <<>>]
        ELSE gathered @@
             [error |-> FALSE,
              db |-> [db EXCEPT !.connected = is_connected(db, env.reachable)],
              context_data |-> results]
             @@ responded(generate_response(user_query, results, web_data, g, env),
                          <<Call("web_search", FindWebResults)>> \o lookup_calls)

(***************************************************************************)
(* crisis_query (app.py lines 485-538): find_and_respond, then the source  *)
(* extraction.                                                             *)
(***************************************************************************)
\* lines 506-534: the CrisisResponse built from the text and its sources
crisis_response(r, x) ==
    r @@ [entry |-> "crisis_query", response |-> x.response,
          sources |-> x.sources, sources_none |-> x.sources_none]
with_sources(r) == crisis_response(r, extract_sources(r.text))

crisis_query_handler(query, max_results, g, db, env) ==
    with_sources(find_and_respond(query, max_results, g, db, env))

(***************************************************************************)
(* llm_response (app.py lines 129-229).                                    *)
(***************************************************************************)
is_california_wildfire(query) ==
    /\ Contains(LowerText(query), <<"c", "a", "l", "i", "f", "o", "r", "n", "i", "a">>)
    /\ (Contains(LowerText(query), <<"w", "i", "l", "d", "f", "i", "r", "e">>) \/ Contains(LowerText(query), <<"f", "i", "r", "e">>))

WideWebResults == 5
DefaultWebResults == 3
LlmDbLimit == 5

\* lines 160-166
RECURSIVE web_sources_of(_, _)
web_sources_of(web_data, i) ==
    IF i > Len(web_data) THEN <<>>
    ELSE (IF Has(web_data[i], "title") /\ Has(web_data[i], "source")
             /\ Has(web_data[i], "url")
          THEN <<[title |-> web_data[i].title, source |-> web_data[i].source,
                  url |-> web_data[i].url]>>
          ELSE <<>>)
         \o web_sources_of(web_data, i + 1)

no_information_llm ==
    <<"I", " ", "c", "o", "u", "l", "d", "n", "'", "t", " ", "f", "i", "n", "d", " ", "a", "n", "y", " ", "i", "n", "f", "o", "r", "m", "a", "t", "i", "o", "n", " ", "a", "b", "o", "u", "t", " ", "y", "o", "u", "r", " ", "q", "u", "e", "r", "y", ".", " ", "P", "l", "e", "a", "s", "e", " ", "t", "r", "y", " ", "a", " ", "d", "i", "f", "f", "e", "r", "e", "n", "t", " ", "q", "u", "e", "s", "t", "i", "o", "n", " ", "o", "r", " ", "c", "h", "e", "c", "k", " ", "y", "o", "u", "r", " ", "i", "n", "t", "e", "r", "n", "e", "t", " ", "c", "o", "n", "n", "e", "c", "t", "i", "o", "n", ".">>

\* DatabaseConnection.connect after a failed is_connected (lines 33-63 and
\* app.py lines 178-181): connected exactly when the server is reachable
connect_if_needed(db, reachable) == [db EXCEPT !.connected = reachable]

\* lines 206-207 and 215-219: the generated text is the response
llm_responded(r) == r @@ [response |-> r.text]

llm_response_handler(query, g, db, env) ==
    LET max_results == IF is_california_wildfire(query) THEN WideWebResults
                       ELSE DefaultWebResults
        web_data == search_disaster_info(env.web, max_results)
        web_sources == web_sources_of(web_data, 1)
        lookup == ~is_california_wildfire(query) \/ Len(web_data) < 2
        db1 == IF lookup THEN connect_if_needed(db, env.reachable) ELSE db
        vec == search_by_vector(db1, env.reachable, env.vec, LlmDbLimit)
        found == IF vec = <<>>
                 THEN search_by_text(db1, env.reachable, env.embed_raise,
                                     env.txt, LlmDbLimit)
                 ELSE vec
        database_results == IF lookup /\ ~env.embed_raise THEN found ELSE <<>>
        lookup_calls ==
            IF ~lookup THEN <<>>
            ELSE IF env.embed_raise THEN <<Call("embed", 0)>>
            ELSE <<Call("embed", 0), Call("vector_search", LlmDbLimit)>>
                 \o (IF vec = <<>> THEN <<Call("text_search", LlmDbLimit)>> ELSE <<>>)
        gathered == [entry |-> "llm_response", query |-> query,
                     web_failed |-> env.web.raise,
                     web_data |-> web_data, context_data |-> database_results,
                     db_failed |-> lookup /\ (env.embed_raise
                                              \/ ~is_db_available(db1, env.reachable)),
                     db |-> db1, sources |-> web_sources, sources_none |-> FALSE,
                     error |-> FALSE]
    IN  IF web_data # <<>> \/ database_results # <<>>
        THEN gathered @@
             llm_responded(responded(
                 generate_response(query, database_results, web_data, g, env),
                 <<Call("web_search", max_results)>> \o lookup_calls))
        ELSE gathered @@
             [text |-> no_information_llm, response |-> no_information_llm, g |-> g,
              calls |-> <<Call("web_search", max_results)>> \o lookup_calls,
              web_used |-> web_data, path |-> "none", branch |-> "none",
              context |-> <<>>, citations |-> <<>>, composed |-> <<>>]

(***************************************************************************)
(* Bounded inputs: queries, evidence items and collaborator outcomes.      *)
(***************************************************************************)
RECURSIVE Repeat(_, _)
Repeat(s, n) == IF n = 0 THEN <<>> ELSE s \o Repeat(s, n - 1)

QueryFlood == <<"f", "l", "o", "o", "d">>
QueryFire == <<"C", "a", "l", "i", "f", "o", "r", "n", "i", "a", " ", "f", "i", "r", "e">>
Queries == {QueryFlood, QueryFire}

W1 == [title |-> <<"Q", "u", "a", "k", "e">>, source |-> <<"W", "i", "k", "i", "p", "e", "d", "i", "a">>, url |-> <<"u", "1">>,
       content |-> <<"w", "o", "n", "e">>]
W2 == [title |-> <<"S", "t", "o", "r", "m">>, source |-> <<"C", "a", "l", " ", "F", "i", "r", "e">>, url |-> <<"u", "2">>,
       content |-> <<"w", "t", "w", "o">>]
\* a web item whose content has more words than the summarization threshold
WLong == [title |-> <<"L", "o", "n", "g">>, source |-> <<"W", "e", "b", " ", "S", "e", "a", "r", "c", "h", " ", "R", "e", "s", "u", "l", "t">>, url |-> <<"u", "3">>,
          content |-> Repeat(<<"w", " ">>, WebSummaryThreshold) \o <<"z">>]
WebPool == <<W1, W2, WLong>>

D1 == [title |-> <<"D", "a", "m">>, text |-> <<"d", "b", "o", "n", "e">>, date |-> <<"2", "0", "2", "0">>]
D2 == [title |-> <<"E", "r", "u", "p", "t", "i", "o", "n">>, summary |-> <<"d", "b", "t", "w", "o">>, text |-> <<>>,
       location |-> <<"J", "a", "v", "a">>]
\* a title of the shape "Flood: {location} ({year})" (load_datasets.py line 422)
D3 == [title |-> <<"F", "l", "o", "o", "d", " ", "(", "2", "0", "2", "0", ")">>, text |-> <<"d", "b", "t", "h", "r", "e", "e">>]
D4 == [title |-> <<"S", "l", "i", "d", "e">>, text |-> <<"d", "b", "f", "o", "u", "r">>]
D5 == [text |-> <<"d", "b", "f", "i", "v", "e">>]
\* a document whose text has more words than the database summary threshold
DLong == [title |-> <<"R", "e", "p", "o", "r", "t">>,
          text |-> Repeat(<<"d", " ">>, DbSummaryThreshold) \o <<"y">>]
DbPool == <<D1, D2, D3, D4, D5>>

\* the lists a web search may collect: windows of WebPool
MaxWebItems == 2
WebLists ==
    {l \in {SubSeq(WebPool, a, b) : a \in 1..Len(WebPool), b \in 0..Len(WebPool)} :
        Len(l) <= MaxWebItems}
WebOutcomes ==
    {[raise |-> TRUE, items |-> <<>>]}
    \cup {[raise |-> FALSE, items |-> l] : l \in WebLists}
NoWeb == [raise |-> FALSE, items |-> <<>>]

\* the ranked lists a vector search may return: prefixes of DbPool
MaxDbItems == 4
VecLists == {Take(DbPool, n) : n \in 0..MaxDbItems} \cup {<<DLong>>, <<D3>>}
TxtLists == {<<>>, <<D2>>}

\* what the generation backend may return
GenTexts ==
    {<<>>,
     <<"t", "h", "e", " ", "a", "n", "s", "w", "e", "r", ".", "M", "o", "r", "e">>,
     <<"*", "*", "A", "n", "s", "w", "e", "r", "*", "*">>}
GenRaise == [raise |-> TRUE, echo |-> FALSE, cont |-> <<>>]
GenOutcomes ==
    {GenRaise} \cup {[raise |-> FALSE, echo |-> e, cont |-> c] :
                        e \in BOOLEAN, c \in GenTexts}
LoadOutcomes == {"ok", "fail_tokenizer", "fail_model"}

SumOk == [load_ok |-> TRUE, raise |-> FALSE, text |-> <<"a", " ", "s", "u", "m", "m", "a", "r", "y", ".">>]
SumOutcomes ==
    {SumOk, [SumOk EXCEPT !.raise = TRUE], [SumOk EXCEPT !.load_ok = FALSE]}

\* the outcomes of one request, with the outcomes that cannot be observed
\* fixed to a default
GatherEnvs ==
    {e \in [web : WebOutcomes, embed_raise : BOOLEAN, reachable : BOOLEAN,
            vec : VecLists, txt : TxtLists, web2 : WebOutcomes] :
        /\ (e.embed_raise \/ ~e.reachable) => (e.vec = <<>> /\ e.txt = <<>>)
        /\ e.embed_raise => e.reachable
        /\ e.vec # <<>> => e.txt = <<>>
        /\ (e.web.items # <<>> \/ e.vec # <<>> \/ e.txt # <<>>) => e.web2 = NoWeb}
ComposeEnvs ==
    {e \in [load : LoadOutcomes, gen : GenOutcomes, sum : SumOutcomes] :
        /\ e.load # "ok" => e.gen = GenRaise
        /\ generation_output(<<>>, e.gen).generated \/ e.gen = GenRaise
        /\ ~generation_output(<<>>, e.gen).raised => e.sum = SumOk}
DefaultCompose == [load |-> "ok", gen |-> GenRaise, sum |-> SumOk]

DefaultMaxResults == 5
\* the max_results a request may carry: the default (app.py line 487,
\* models.py line 67) and a smaller one
SmallMaxResults == 2
MaxResultsValues == {SmallMaxResults, DefaultMaxResults}

(***************************************************************************)
(* State.                                                                  *)
(***************************************************************************)
VARIABLES
    tokenizer,           \* LLMResponseGenerator.tokenizer is set
    model,               \* LLMResponseGenerator.model is set
    model_loaded,        \* LLMResponseGenerator.model_loaded
    summarizer_loaded,   \* LLMResponseGenerator.summarizer_loaded
    summarizer,          \* LLMResponseGenerator.summarizer is set
    summarizer_model,    \* Summarizer.model and Summarizer.tokenizer are set
    db_connected,        \* DatabaseConnection._connected
    ops_collection,      \* CrisisEventOperations.collection is not None
    pc,                  \* "idle", or "done" when a handler has answered
    request,             \* the request being answered and its result
    norm,                \* the text handed to _format_response_text alone
    extraction,          \* the text handed to the source extraction alone
    flight,              \* find_and_respond followed call by call: the
                         \* collaborator call it is waiting for
    crisis_events,       \* the documents of the crisis events collection
    reply,               \* the last reply of an /events endpoint
    generation,          \* a decoded generation output on its way through
                         \* the composer and the normalizer
    scrape,              \* one call of WebScraper.search_disaster_info
    connection           \* the DatabaseConnection singleton and its callers

vars == <<tokenizer, model, model_loaded, summarizer_loaded, summarizer,
          summarizer_model, db_connected, ops_collection, pc, request, norm,
          extraction, flight, crisis_events, reply,
                   generation, scrape, connection>>

pipeline_vars == <<tokenizer, model, model_loaded, summarizer_loaded, summarizer,
                   summarizer_model, db_connected, ops_collection, pc, request>>

generator == [tokenizer |-> tokenizer, model |-> model, model_loaded |-> model_loaded,
              summarizer_loaded |-> summarizer_loaded, summarizer |-> summarizer,
              summarizer_model |-> summarizer_model]
database == [connected |-> db_connected, ops_collection |-> ops_collection]

NoRequest == [entry |-> "none"]
NoNorm == [pc |-> "off"]
NoExtraction == [pc |-> "off"]
NoFlight == [at |-> "off"]
NoEvents == [event_id \in {} |-> {}]
NoReply == [op |-> "none"]
NoGeneration == [pc |-> "off"]
NoScrape == [pc |-> "off"]
NoConnection == [pc |-> "off"]

\* the fields of a handler's result that describe the request
request_of(r) ==
    [f \in DOMAIN r \ {"g", "db"} |-> r[f]]

\* LLMResponseGenerator.__init__ (lines 39-50), Summarizer.__init__,
\* DatabaseConnection.__init__ and CrisisEventOperations.__init__
\* (db_operations.py lines 28-39), which connects, and app.py line 72
InitPipeline ==
    /\ tokenizer = FALSE
    /\ model = FALSE
    /\ model_loaded = FALSE
    /\ summarizer_loaded = FALSE
    /\ summarizer = FALSE
    /\ summarizer_model = FALSE
    /\ db_connected \in BOOLEAN
    /\ ops_collection \in BOOLEAN
    /\ ops_collection => db_connected
    /\ pc = "idle"
    /\ request = NoRequest

Init ==
    /\ InitPipeline
    /\ norm = NoNorm
    /\ extraction = NoExtraction
    /\ flight = NoFlight
    /\ crisis_events = NoEvents
    /\ reply = NoReply
    /\ generation = NoGeneration
    /\ scrape = NoScrape
    /\ connection = NoConnection

\* the state after a handler has returned r
Answered(r) ==
    /\ tokenizer' = r.g.tokenizer
    /\ model' = r.g.model
    /\ model_loaded' = r.g.model_loaded
    /\ summarizer_loaded' = r.g.summarizer_loaded
    /\ summarizer' = r.g.summarizer
    /\ summarizer_model' = r.g.summarizer_model
    /\ db_connected' = r.db.connected
    /\ ops_collection' = r.db.ops_collection
    /\ pc' = "done"
    /\ request' = request_of(r)
    /\ UNCHANGED <<norm, extraction, flight, crisis_events, reply,
                   generation, scrape, connection>>

\* outcomes that the state makes unobservable are fixed to the default
Observable(g, c) ==
    /\ g.model_loaded => c.load = "ok"
    /\ g.summarizer_model => c.sum.load_ok
\* a raise of the summarization itself can be observed only on a text that
\* is not returned unchanged for being short (summarization.py lines 59-60)
Summarizable(e) ==
    WordCount(web_content(e.web.items, 1) \o web_content(e.web2.items, 1)
              \o db_content(e.vec, 1) \o db_content(e.txt, 1)) >= SummaryMinLength
\* the composer never sees max_results, so a request with a max_results other
\* than the default is followed under the default compose outcomes only
Bounded(max_results, c) == max_results # DefaultMaxResults => c = DefaultCompose
NoEvidence(e) ==
    e.web.items = <<>> /\ e.vec = <<>> /\ e.txt = <<>> /\ e.web2.items = <<>>
NoLookup(e) == ~e.embed_raise /\ e.reachable /\ e.vec = <<>> /\ e.txt = <<>>

\* GET /crisis/query
crisis_query ==
    /\ pc = "idle"
    /\ \E query \in Queries, max_results \in MaxResultsValues,
          e \in GatherEnvs, c \in ComposeEnvs :
        /\ Observable(generator, c)
        /\ Bounded(max_results, c)
        /\ c.sum.raise => Summarizable(e)
        /\ e.embed_raise => c = DefaultCompose
        /\ NoEvidence(e) => c = DefaultCompose
        /\ ~db_connected => e.reachable
        /\ ~(db_connected /\ ops_collection) => (e.vec = <<>> /\ e.txt = <<>>)
        /\ Answered(crisis_query_handler(query, max_results,
                                         generator, database, e @@ c)
                    @@ [max_results |-> max_results])

\* POST /api/llm-response
llm_response ==
    /\ pc = "idle"
    /\ \E query \in Queries, max_results \in MaxResultsValues,
          e \in GatherEnvs, c \in ComposeEnvs :
        /\ Observable(generator, c)
        /\ Bounded(max_results, c)
        /\ c.sum.raise => Summarizable(e)
        /\ NoEvidence(e) => c = DefaultCompose
        /\ ~ops_collection => (e.vec = <<>> /\ e.txt = <<>>)
        /\ (is_california_wildfire(query) /\ Len(e.web.items) >= 2) => NoLookup(e)
        /\ Answered(llm_response_handler(query, generator, database, e @@ c)
                    @@ [max_results |-> max_results])

\* the response has been sent; the entities of the request are discarded
next_request ==
    /\ pc = "done"
    /\ pc' = "idle"
    /\ request' = NoRequest
    /\ UNCHANGED <<tokenizer, model, model_loaded, summarizer_loaded, summarizer,
                   summarizer_model, db_connected, ops_collection, norm,
                   extraction, flight, crisis_events, reply,
                   generation, scrape, connection>>

Next == crisis_query \/ llm_response \/ next_request

Spec == Init /\ [][Next]_vars

(***************************************************************************)
(* The normalizer on its own: _format_response_text applied to a text,     *)
(* and applied again to its own output.                                    *)
(***************************************************************************)
NormSegments ==
    {<<"a">>, <<"B">>, <<"i", "r", "a", "n">>, <<".">>, <<" ">>, <<"\n">>, <<"\n", "\n">>, <<"*", "*">>, <<"'">>,
     <<"\n", "\n", "*", "*", "S", "o", "u", "r", "c", "e", "s", ":", "*", "*", "\n">>, <<"-", " ", "x">>, <<"2">>}
MaxSegs == 3

RECURSIVE NormTexts(_)
NormTexts(n) ==
    IF n = 0 THEN {<<>>}
    ELSE NormTexts(n - 1)
         \cup {t \o seg : t \in NormTexts(n - 1), seg \in NormSegments}

InitNorm ==
    /\ tokenizer = FALSE
    /\ model = FALSE
    /\ model_loaded = FALSE
    /\ summarizer_loaded = FALSE
    /\ summarizer = FALSE
    /\ summarizer_model = FALSE
    /\ db_connected = FALSE
    /\ ops_collection = FALSE
    /\ pc = "off"
    /\ request = NoRequest
    /\ norm \in {[pc |-> "in", text |-> t] : t \in NormTexts(MaxSegs)}
    /\ extraction = NoExtraction
    /\ flight = NoFlight
    /\ crisis_events = NoEvents
    /\ reply = NoReply
    /\ generation = NoGeneration
    /\ scrape = NoScrape
    /\ connection = NoConnection

\* _format_response_text(text)
normalize ==
    /\ norm.pc = "in"
    /\ norm' = [pc |-> "once", text |-> norm.text,
                once |-> format_response_text(norm.text)]
    /\ UNCHANGED <<pipeline_vars, extraction, flight, crisis_events, reply,
                   generation, scrape, connection>>

\* _format_response_text applied to its own output
normalize_again ==
    /\ norm.pc = "once"
    /\ norm' = [pc |-> "twice", text |-> norm.text, once |-> norm.once,
                twice |-> format_response_text(norm.once)]
    /\ UNCHANGED <<pipeline_vars, extraction, flight, crisis_events, reply,
                   generation, scrape, connection>>

NextNorm == normalize \/ normalize_again

SpecNorm == InitNorm /\ [][NextNorm]_vars

(***************************************************************************)
(* The source extraction on its own: the body of crisis_query after        *)
(* find_and_respond has returned, applied to a response text.              *)
(***************************************************************************)
ExtractSegments ==
    {<<"A", "n", "s">>, SourcesLiteral, NL, <<" ">>, <<"x">>,
     <<"-", " ", "A", " ", "(", "B", ")">>, <<"-", " ", "C">>, <<"-", "D", ")">>}
MaxParts == 4

RECURSIVE ExtractTexts(_)
ExtractTexts(n) ==
    IF n = 0 THEN {<<>>}
    ELSE ExtractTexts(n - 1)
         \cup {t \o seg : t \in ExtractTexts(n - 1), seg \in ExtractSegments}

InitExtract ==
    /\ tokenizer = FALSE
    /\ model = FALSE
    /\ model_loaded = FALSE
    /\ summarizer_loaded = FALSE
    /\ summarizer = FALSE
    /\ summarizer_model = FALSE
    /\ db_connected = FALSE
    /\ ops_collection = FALSE
    /\ pc = "off"
    /\ request = NoRequest
    /\ norm = NoNorm
    /\ extraction \in {[pc |-> "in", text |-> t] : t \in ExtractTexts(MaxParts)}
    /\ flight = NoFlight
    /\ crisis_events = NoEvents
    /\ reply = NoReply
    /\ generation = NoGeneration
    /\ scrape = NoScrape
    /\ connection = NoConnection

\* crisis_query, lines 508-534, on the text find_and_respond returned
extract ==
    /\ extraction.pc = "in"
    /\ extraction' = [pc |-> "out", text |-> extraction.text,
                      result |-> extract_sources(extraction.text)]
    /\ UNCHANGED <<pipeline_vars, norm, flight, crisis_events, reply,
                   generation, scrape, connection>>

NextExtract == extract

SpecExtract == InitExtract /\ [][NextExtract]_vars

(***************************************************************************)
(* find_and_respond followed from one collaborator call to the next        *)
(* (llm_response.py lines 587-618).  A call in flight is answered, fails,  *)
(* or is never answered ("silent"); a call returns without an answer only  *)
(* where the code passes a timeout.                                        *)
(***************************************************************************)

InitAwait ==
    /\ tokenizer = FALSE
    /\ model = FALSE
    /\ model_loaded = FALSE
    /\ summarizer_loaded = FALSE
    /\ summarizer = FALSE
    /\ summarizer_model = FALSE
    /\ db_connected = TRUE
    /\ ops_collection = TRUE
    /\ pc = "off"
    /\ request = NoRequest
    /\ norm = NoNorm
    /\ extraction = NoExtraction
    /\ flight = [at |-> "idle"]
    /\ crisis_events = NoEvents
    /\ reply = NoReply
    /\ generation = NoGeneration
    /\ scrape = NoScrape
    /\ connection = NoConnection

\* what the calls of one find_and_respond may come back with
WikiOutcomes == {<<>>, <<W1>>}
PageOutcomes == {W2, WLong}
FlightVecLists == {<<>>, <<D1>>, Take(DbPool, 2)}

\* the call find_and_respond is blocked in, and what it has gathered so far
Waiting(at, silent, query, web_data, results) ==
    [at |-> at, silent |-> silent, query |-> query, web_data |-> web_data,
     results |-> results, error |-> FALSE]
WaitingNext(at, silent, web_data, results) ==
    Waiting(at, silent, flight.query, web_data, results)
Returned(error) ==
    [at |-> "returned", silent |-> FALSE, query |-> flight.query,
     web_data |-> flight.web_data, results |-> flight.results, error |-> error]
Idle == UNCHANGED <<pipeline_vars, norm, extraction, crisis_events, reply,
                   generation, scrape, connection>>

\* find_and_respond(query) is called: search_disaster_info (line 592) sends
\* the opensearch request, requests.get without timeout (web_scraper.py
\* lines 285 and 300)
begin_find_and_respond ==
    /\ flight.at = "idle"
    /\ \E query \in Queries, silent \in BOOLEAN :
         flight' = Waiting("wikipedia_request", silent, query, <<>>, <<>>)
    /\ Idle

\* _search_wikipedia returns a page or None (a failure is caught, lines
\* 345-347); search_disaster_info goes on to _general_search, whose request
\* has no timeout either (line 361)
wikipedia_request_returns ==
    /\ flight.at = "wikipedia_request"
    /\ ~flight.silent
    /\ \E wiki_data \in WikiOutcomes, silent \in BOOLEAN :
         flight' = WaitingNext("search_request", silent, wiki_data, <<>>)
    /\ Idle

\* the search page is answered: with a result, whose page is then requested
\* by extract_content_from_url (lines 405 and 525), or without one
search_request_returns ==
    /\ flight.at = "search_request"
    /\ ~flight.silent
    /\ \E hit \in BOOLEAN, silent \in BOOLEAN :
         flight' = IF hit
                   THEN WaitingNext("page_request", silent, flight.web_data, <<>>)
                   ELSE WaitingNext("embedding", silent, flight.web_data, <<>>)
    /\ Idle

\* extract_content_from_url is answered: the full content of the page, or a
\* status other than 200 and the snippet is kept (lines 527-528, 413)
page_request_returns ==
    /\ flight.at = "page_request"
    /\ ~flight.silent
    /\ \E item \in PageOutcomes, silent \in BOOLEAN :
         flight' = WaitingNext("embedding", silent,
                               Take(flight.web_data \o <<item>>, FindWebResults), <<>>)
    /\ Idle

\* requests.get(url, timeout=5) raises after 5 seconds without an answer;
\* extract_content_from_url returns None and the snippet is kept (lines
\* 525, 551-553)
page_request_times_out ==
    /\ flight.at = "page_request"
    /\ flight.silent
    /\ \E silent \in BOOLEAN :
         flight' = WaitingNext("embedding", silent,
                               Take(flight.web_data \o <<W2>>, FindWebResults), <<>>)
    /\ Idle

\* generate_embedding returns (line 601); when it raises, the handler of
\* lines 618-625 returns the error text
embedding_returns ==
    /\ flight.at = "embedding"
    /\ ~flight.silent
    /\ \E raise \in BOOLEAN, silent \in BOOLEAN :
         flight' = IF raise THEN Returned(TRUE)
                   ELSE WaitingNext("vector_search", silent, flight.web_data, <<>>)
    /\ Idle

\* search_by_vector returns (line 607); text search follows on no result
vector_search_returns ==
    /\ flight.at = "vector_search"
    /\ ~flight.silent
    /\ \E vec \in FlightVecLists, silent \in BOOLEAN :
         LET results == search_by_vector(database, TRUE, vec, DefaultMaxResults)
         IN  flight' = WaitingNext(IF results = <<>> THEN "text_search"
                                   ELSE "generate_response",
                                   silent, flight.web_data, results)
    /\ Idle

\* search_by_text returns (line 611)
text_search_returns ==
    /\ flight.at = "text_search"
    /\ ~flight.silent
    /\ \E txt \in TxtLists, silent \in BOOLEAN :
         flight' = WaitingNext("generate_response", silent, flight.web_data,
                               search_by_text(database, TRUE, FALSE, txt,
                                              DefaultMaxResults))
    /\ Idle

\* generate_response returns (line 614): model loading, generation and
\* summarization have come back, and find_and_respond returns the response
\* (the text is the one composed in Spec; only the waiting is followed here)
generate_response_returns ==
    /\ flight.at = "generate_response"
    /\ ~flight.silent
    /\ flight' = Returned(FALSE)
    /\ Idle

\* the caller has the result; the next call may come
flight_done ==
    /\ flight.at = "returned"
    /\ flight' = [at |-> "idle"]
    /\ Idle

\* the steps find_and_respond takes once it has been called
StepAwait ==
    \/ wikipedia_request_returns
    \/ search_request_returns
    \/ page_request_returns
    \/ page_request_times_out
    \/ embedding_returns
    \/ vector_search_returns
    \/ text_search_returns
    \/ generate_response_returns

NextAwait == begin_find_and_respond \/ StepAwait \/ flight_done

\* a step of the handler that can be taken is taken
SpecAwait == InitAwait /\ [][NextAwait]_vars /\ WF_vars(StepAwait)

(***************************************************************************)
(* The /events endpoints (app.py lines 312-465) on the crisis events       *)
(* collection (db_operations.py lines 45-202).  A document has the fields  *)
(* CrisisEventCreate.dict() gives it, of which title, summary and text are *)
(* followed, and its embedding; a value is a token, None the missing one.  *)
(***************************************************************************)
None == "None"
Titles == {"T1", "T2"}
Summaries == {"S1"}
Texts == {"X1"}
EventIds == {"e1", "e2"}
ContentFields == {"title", "summary", "text"}
FieldValues(field) ==
    IF field = "title" THEN Titles
    ELSE IF field = "summary" THEN Summaries ELSE Texts

\* the bodies of PUT: event_update.dict(exclude_unset=True) (line 390)
EventUpdates ==
    UNION {{u \in [D -> Titles \cup Summaries \cup Texts] :
                \A field \in D : u[field] \in FieldValues(field)} :
           D \in SUBSET ContentFields}
\* the bodies of POST: CrisisEventCreate (models.py lines 20-29)
EventCreates == [title : Titles, summary : Summaries \cup {None}, text : Texts \cup {None}]

\* {**event, **update_data} and dict.update
merged(event, update_data) ==
    [field \in DOMAIN event \cup DOMAIN update_data |->
        IF field \in DOMAIN update_data THEN update_data[field] ELSE event[field]]
\* data[field] = value
set_field(data, field, value) ==
    [f \in DOMAIN data \cup {field} |-> IF f = field THEN value ELSE data[f]]

\* EmbeddingGenerator.generate_embedding: the vector is determined by the
\* text that is embedded
generate_embedding(text) == [embedded |-> text]
NotNone(value) == value # None
\* generate_embedding_for_crisis (embedding_generator.py lines 80-111)
generate_embedding_for_crisis(crisis_data) ==
    set_field(crisis_data, "embedding",
              generate_embedding(SelectSeq(<<crisis_data.title, crisis_data.summary>>,
                                           NotNone)))
\* the f-string of db_operations.py lines 61 and 140
text_to_embed(event) == <<event.title, event.summary, event.text>>
\* Summarizer.summarize returns a text of fewer than 40 words unchanged
\* (summarization.py lines 61-62); every text here is one word
summarize_short(text) == text

\* CrisisEventOperations.get_crisis_event (db_operations.py lines 179-202)
get_crisis_event(collection, available, event_id) ==
    IF available /\ event_id \in DOMAIN collection
    THEN [found |-> TRUE, event |-> collection[event_id]]
    ELSE [found |-> FALSE, event |-> None]

\* collection.update_one({'_id': id}, {'$set': data}) and the test
\* result.modified_count > 0 (lines 146-151); an empty $set modifies nothing
update_one(collection, event_id, data) ==
    IF DOMAIN data = {} \/ event_id \notin DOMAIN collection
    THEN [success |-> FALSE, collection |-> collection]
    ELSE [success |-> merged(collection[event_id], data) # collection[event_id],
          collection |-> [collection EXCEPT
                            ![event_id] = merged(collection[event_id], data)]]

\* CrisisEventOperations.update_crisis_event (lines 111-156)
update_crisis_event(collection, available, event_id, update_data) ==
    LET event == get_crisis_event(collection, available, event_id)
    IN  IF ~available THEN [success |-> FALSE, collection |-> collection]
        ELSE IF \E field \in ContentFields : field \in DOMAIN update_data
        THEN IF ~event.found THEN [success |-> FALSE, collection |-> collection]
             ELSE update_one(collection, event_id,
                      set_field(update_data, "embedding",
                          generate_embedding(
                              text_to_embed(merged(event.event, update_data)))))
        ELSE update_one(collection, event_id, update_data)

\* a delete that reports success and leaves the document in the collection
delete_crisis_event_kept(collection, available, event_id) ==
    [success |-> available /\ event_id \in DOMAIN collection,
     collection |-> collection]
\* CrisisEventOperations.delete_crisis_event (lines 158-176)
delete_crisis_event(collection, available, event_id) ==
    IF available /\ event_id \in DOMAIN collection
    THEN [success |-> TRUE,
          collection |-> [id \in DOMAIN collection \ {event_id} |-> collection[id]]]
    ELSE [success |-> FALSE, collection |-> collection]

\* CrisisEventOperations.insert_crisis_event (lines 45-74) with the id the
\* database gives the document
insert_crisis_event(collection, event_id, crisis_event) ==
    [id \in DOMAIN collection \cup {event_id} |->
        IF id = event_id
        THEN set_field(crisis_event, "embedding",
                       generate_embedding(text_to_embed(crisis_event)))
        ELSE collection[id]]

\* response_model=CrisisEvent (models.py lines 8-18): title and summary are
\* required strings; a returned value that fails it is answered with 500
is_crisis_event(event) == event.title # None /\ event.summary # None
returned_event(found, ok_status) ==
    [status |-> IF is_crisis_event(found.event) THEN ok_status ELSE 500,
     body |-> IF is_crisis_event(found.event) THEN found.event ELSE None]
Failed(status, collection) == [status |-> status, body |-> None, collection |-> collection]

\* GET /events/{event_id} (app.py lines 312-336)
get_event(collection, available, event_id) ==
    LET event == get_crisis_event(collection, available, event_id)
    IN  IF ~event.found THEN Failed(404, collection)
        ELSE returned_event(event, 200) @@ [collection |-> collection]

\* lines 392-395: a text without summary is summarized
with_summary(update_data) ==
    IF "text" \in DOMAIN update_data /\ "summary" \notin DOMAIN update_data
    THEN set_field(update_data, "summary", summarize_short(update_data.text))
    ELSE update_data
\* lines 397-413: the embedding of the merged event
with_embedding(existing_event, update_data) ==
    IF "title" \in DOMAIN update_data \/ "summary" \in DOMAIN update_data
    THEN set_field(update_data, "embedding",
             generate_embedding_for_crisis(merged(existing_event, update_data)).embedding)
    ELSE update_data
\* lines 415-426: the update in the database and the event read back
updated(updating, available, event_id) ==
    IF ~updating.success THEN Failed(500, updating.collection)
    ELSE returned_event(get_crisis_event(updating.collection, available, event_id), 200)
         @@ [collection |-> updating.collection]

\* PUT /events/{event_id} (app.py lines 374-434)
update_event(collection, available, event_id, event_update) ==
    LET existing_event == get_crisis_event(collection, available, event_id)
    IN  IF ~existing_event.found THEN Failed(404, collection)
        ELSE updated(update_crisis_event(collection, available, event_id,
                         with_embedding(existing_event.event,
                                        with_summary(event_update))),
                     available, event_id)

\* DELETE /events/{event_id} (app.py lines 436-465)
delete_event(collection, available, event_id) ==
    LET existing_event == get_crisis_event(collection, available, event_id)
        deleting == delete_crisis_event(collection, available, event_id)
    IN  IF ~existing_event.found THEN Failed(404, collection)
        ELSE IF ~deleting.success THEN Failed(500, collection)
        ELSE [status |-> 204, body |-> None, collection |-> deleting.collection]

\* lines 346-352
create_summary(event) ==
    IF event.text # None /\ event.summary = None
    THEN [event EXCEPT !.summary = summarize_short(event.text)]
    ELSE event
\* lines 360-366: the inserted event read back
created(collection, available, event_id) ==
    returned_event(get_crisis_event(collection, available, event_id), 201)
    @@ [collection |-> collection]

\* POST /events (app.py lines 338-372); event_id is the id of the new
\* document.  Without database nothing is inserted and None is returned,
\* which is not a CrisisEvent
create_event(collection, available, event_id, event) ==
    IF ~available THEN Failed(500, collection)
    ELSE created(insert_crisis_event(collection, event_id,
                     generate_embedding_for_crisis(create_summary(event))),
                 available, event_id)

InitEvents ==
    /\ tokenizer = FALSE
    /\ model = FALSE
    /\ model_loaded = FALSE
    /\ summarizer_loaded = FALSE
    /\ summarizer = FALSE
    /\ summarizer_model = FALSE
    /\ db_connected = TRUE
    /\ ops_collection = TRUE
    /\ pc = "off"
    /\ request = NoRequest
    /\ norm = NoNorm
    /\ extraction = NoExtraction
    /\ flight = NoFlight
    /\ crisis_events = NoEvents
    /\ reply = NoReply
    /\ generation = NoGeneration
    /\ scrape = NoScrape
    /\ connection = NoConnection

\* the reply of an endpoint, the database as the request leaves it, and
\* what the request was
Replied(op, event_id, body, reachable, r) ==
    /\ crisis_events' = r.collection
    /\ reply' = [op |-> op, event_id |-> event_id, sent |-> body,
                 existed |-> event_id \in DOMAIN crisis_events,
                 available |-> is_db_available(database, reachable),
                 status |-> r.status, body |-> r.body]
    /\ db_connected' = is_connected(database, reachable)
    /\ UNCHANGED <<tokenizer, model, model_loaded, summarizer_loaded, summarizer,
                   summarizer_model, ops_collection, pc, request, norm,
                   extraction, flight, generation, scrape, connection>>

post_event ==
    /\ \E event \in EventCreates, reachable \in BOOLEAN,
          event_id \in EventIds \ DOMAIN crisis_events :
           Replied("POST", event_id, event, reachable,
                   create_event(crisis_events, is_db_available(database, reachable),
                                event_id, event))

get_event_by_id ==
    /\ \E event_id \in EventIds, reachable \in BOOLEAN :
           Replied("GET", event_id, None, reachable,
                   get_event(crisis_events, is_db_available(database, reachable),
                             event_id))

put_event ==
    /\ \E event_id \in EventIds, event_update \in EventUpdates, reachable \in BOOLEAN :
           Replied("PUT", event_id, event_update, reachable,
                   update_event(crisis_events, is_db_available(database, reachable),
                                event_id, event_update))

delete_event_by_id ==
    /\ \E event_id \in EventIds, reachable \in BOOLEAN :
           Replied("DELETE", event_id, None, reachable,
                   delete_event(crisis_events, is_db_available(database, reachable),
                                event_id))

NextEvents == post_event \/ get_event_by_id \/ put_event \/ delete_event_by_id

SpecEvents == InitEvents /\ [][NextEvents]_vars

(***************************************************************************)
(* The generation branch on its own: what the composer does with a decoded *)
(* generation output (llm_response.py lines 208-218 and 301-307) and what  *)
(* generate_response does with the composer's result (line 134).           *)
(***************************************************************************)
\* tokenizer.decode(output_ids[0], skip_special_tokens=True), lines 208 and
\* 301: the prompt as the tokenizer gives it back, then the new tokens.  The
\* round trip through the tokenizer either keeps the prompt character for
\* character or loses its leading whitespace.
DecodeOutcomes == {"exact", "stripped", "new_tokens_only"}
decode(prompt, cont, outcome) ==
    IF outcome = "exact" THEN prompt \o cont
    ELSE IF outcome = "stripped" THEN Strip(prompt) \o cont
    ELSE cont

\* what the model may write after the prompt
Continuations ==
    GenTexts \cup {<<" ", "\n", "i", "r", "a", "n", " ", "o", "k", ".", " ", "\n">>}

\* the evidence of a call that reaches the generation
GenerationWebData == {<<W1>>, <<W2>>, <<W1, W2>>}
GenerationContextData == {<<D1>>, <<D2>>, <<D1, D2>>}

\* lines 210-218: the web composer strips the prompt and appends the block
web_generation_result(response_text, prompt, sources) ==
    strip_prompt(response_text, prompt) \o sources_block(sources)
\* lines 303-307: the database composer strips the prompt
db_generation_result(response_text, prompt) == strip_prompt(response_text, prompt)

InitGeneration ==
    /\ tokenizer = TRUE
    /\ model = TRUE
    /\ model_loaded = TRUE
    /\ summarizer_loaded = TRUE
    /\ summarizer = TRUE
    /\ summarizer_model = FALSE
    /\ db_connected = FALSE
    /\ ops_collection = FALSE
    /\ pc = "off"
    /\ request = NoRequest
    /\ norm = NoNorm
    /\ extraction = NoExtraction
    /\ flight = NoFlight
    /\ crisis_events = NoEvents
    /\ reply = NoReply
    /\ \E query \in Queries, cont \in Continuations, outcome \in DecodeOutcomes :
        \/ \E web_data \in GenerationWebData :
            LET all_content == web_content(web_data, 1)
                prompt == web_prompt(query, all_content)
            IN  generation = [pc |-> "decoded", path |-> "web", query |-> query,
                              context |-> all_content, prompt |-> prompt,
                              sources |-> web_sources_lines(web_data, 1),
                              response_text |-> decode(prompt, cont, outcome)]
        \/ \E context_data \in GenerationContextData :
            LET formatted_context == format_context(context_data)
                prompt == db_prompt(query, formatted_context)
            IN  generation = [pc |-> "decoded", path |-> "db", query |-> query,
                              context |-> formatted_context, prompt |-> prompt,
                              sources |-> <<>>,
                              response_text |-> decode(prompt, cont, outcome)]
    /\ scrape = NoScrape
    /\ connection = NoConnection

\* the composer returns the decoded text and generate_response normalizes it
generation_returns ==
    /\ generation.pc = "decoded"
    /\ LET composed == IF generation.path = "web"
                       THEN web_generation_result(generation.response_text,
                                                  generation.prompt, generation.sources)
                       ELSE db_generation_result(generation.response_text,
                                                 generation.prompt)
       IN  generation' = [generation EXCEPT !.pc = "returned"]
                         @@ [composed |-> composed,
                             answer |-> format_response_text(composed)]
    /\ UNCHANGED <<pipeline_vars, norm, extraction, flight, crisis_events, reply,
                   scrape, connection>>

NextGeneration == generation_returns

SpecGeneration == InitGeneration /\ [][NextGeneration]_vars

(***************************************************************************)
(* WebScraper.search_disaster_info (web_scraper.py lines 51-90) followed   *)
(* search by search.                                                       *)
(***************************************************************************)
QueryFire2020 == QueryFire \o <<" ", "2", "0", "2", "0">>
ScrapeQueries == Queries \cup {QueryFire2020}

\* re.search(r'20\d\d', query) (line 101)
HasYear(query) ==
    \E i \in 1..(Len(query) - 3) :
        /\ query[i] = "2"
        /\ query[i + 1] = "0"
        /\ query[i + 2] \in Digits
        /\ query[i + 3] \in Digits

\* what a search of one site may give
G1 == [title |-> <<"F", "l", "o", "o", "d", " ", "1">>, source |-> <<"W", "e", "b", " ", "S", "e", "a", "r", "c", "h", " ", "R", "e", "s", "u", "l", "t">>, url |-> <<"g", "1">>, content |-> <<"g", "o", "n", "e">>]
G2 == [G1 EXCEPT !.url = <<"g", "2">>, !.content = <<"g", "t", "w", "o">>]
G3 == [G1 EXCEPT !.url = <<"g", "3">>, !.content = <<"g", "t", "h", "r", "e", "e">>]
NoItem == [source |-> <<>>]
\* _search_cal_fire: a page, or None after a failure
CalFireOutcomes == {NoItem, W2}
\* _search_wikipedia: a page, or None after a failure (lines 287, 293, 345)
WikipediaOutcomes == {NoItem, W1}
\* the search page of _general_search: a status other than 200, an
\* exception, or the results that pass the keyword filter
SearchPageOutcomes ==
    {[status |-> "error", items |-> <<>>], [status |-> "raise", items |-> <<>>]}
    \cup {[status |-> "ok", items |-> l] : l \in {<<>>, <<G1>>, <<G1, G2>>}}
\* the search page of _google_search
GooglePageOutcomes ==
    {[status |-> "error", items |-> <<>>]}
    \cup {[status |-> "ok", items |-> l] : l \in {<<>>, <<G3>>}}
MaxScrapeResults == 3

\* _search_specific_disaster (lines 92-109)
search_specific_disaster(query, cal_fire_data) ==
    IF is_california_wildfire(query) /\ HasYear(query) /\ cal_fire_data # NoItem
    THEN <<cal_fire_data>> ELSE <<>>

\* _google_search (lines 435-517): at most max_results results
google_search(max_results, page) ==
    IF page.status # "ok" THEN <<>> ELSE Take(page.items, max_results)

\* _general_search (lines 349-433)
general_search(max_results, page, google_page) ==
    IF page.status # "ok" THEN google_search(max_results, google_page)
    ELSE LET results == Take(page.items, max_results)
         IN  IF Len(results) < max_results
             THEN results \o google_search(max_results - Len(results), google_page)
             ELSE results

\* the results returned without the slice
sliced_not(results, max_results) == results
\* results[:max_results] (line 86)
sliced(results, max_results) == Take(results, max_results)

\* the next search after one has returned (lines 75 and 81)
after_search(results, max_results, next) ==
    IF Len(results) < max_results THEN next ELSE "slice"

InitScrape ==
    /\ tokenizer = FALSE
    /\ model = FALSE
    /\ model_loaded = FALSE
    /\ summarizer_loaded = FALSE
    /\ summarizer = FALSE
    /\ summarizer_model = FALSE
    /\ db_connected = FALSE
    /\ ops_collection = FALSE
    /\ pc = "off"
    /\ request = NoRequest
    /\ norm = NoNorm
    /\ extraction = NoExtraction
    /\ flight = NoFlight
    /\ crisis_events = NoEvents
    /\ reply = NoReply
    /\ generation = NoGeneration
    /\ scrape = [pc |-> "idle"]
    /\ connection = NoConnection

Scraping == UNCHANGED <<pipeline_vars, norm, extraction, flight, crisis_events,
                        reply, generation, connection>>

\* search_disaster_info(query, max_results) is called
search_disaster_info_called ==
    /\ scrape.pc = "idle"
    /\ \E query \in ScrapeQueries, max_results \in 0..MaxScrapeResults :
         scrape' = [pc |-> "specific", query |-> query, max_results |-> max_results,
                    results |-> <<>>, specific |-> <<>>,
                    wikipedia_asked |-> FALSE, wikipedia |-> <<>>,
                    general_asked |-> FALSE, general_max |-> 0, general |-> <<>>,
                    failed |-> FALSE, returned |-> <<>>]
    /\ Scraping

\* lines 69-72: the specific site has been searched
specific_search_returns ==
    /\ scrape.pc = "specific"
    /\ \E cal_fire_data \in CalFireOutcomes :
         LET specific_results == search_specific_disaster(scrape.query, cal_fire_data)
         IN  scrape' = [scrape EXCEPT
                           !.specific = specific_results,
                           !.results = specific_results,
                           !.pc = after_search(specific_results, scrape.max_results,
                                               "wikipedia")]
    /\ Scraping

\* lines 75-78: Wikipedia has been searched
wikipedia_search_returns ==
    /\ scrape.pc = "wikipedia"
    /\ \E wiki_data \in WikipediaOutcomes :
         LET found == IF wiki_data # NoItem THEN <<wiki_data>> ELSE <<>>
         IN  scrape' = [scrape EXCEPT
                           !.wikipedia_asked = TRUE,
                           !.wikipedia = found,
                           !.results = scrape.results \o found,
                           !.pc = after_search(scrape.results \o found,
                                               scrape.max_results, "general")]
    /\ Scraping

\* lines 81-83: the general search has returned
general_search_returns ==
    /\ scrape.pc = "general"
    /\ \E page \in SearchPageOutcomes, google_page \in GooglePageOutcomes :
         LET asked == scrape.max_results - Len(scrape.results)
             general_results == general_search(asked, page, google_page)
         IN  scrape' = [scrape EXCEPT
                           !.general_asked = TRUE,
                           !.general_max = asked,
                           !.general = general_results,
                           !.results = scrape.results \o general_results,
                           !.pc = "slice"]
    /\ Scraping

\* line 86
results_returned ==
    /\ scrape.pc = "slice"
    /\ scrape' = [scrape EXCEPT !.pc = "returned",
                                !.returned = sliced(scrape.results, scrape.max_results)]
    /\ Scraping

\* lines 88-90: an exception has left one of the steps
search_fails ==
    /\ scrape.pc \in {"specific", "wikipedia", "general", "slice"}
    /\ scrape' = [scrape EXCEPT !.pc = "returned", !.failed = TRUE,
                                !.returned = <<>>]
    /\ Scraping

\* the caller has the list
search_done ==
    /\ scrape.pc = "returned"
    /\ scrape' = [pc |-> "idle"]
    /\ Scraping

NextScrape ==
    \/ search_disaster_info_called
    \/ specific_search_returns
    \/ wikipedia_search_returns
    \/ general_search_returns
    \/ results_returned
    \/ search_fails
    \/ search_done

SpecScrape == InitScrape /\ [][NextScrape]_vars

(***************************************************************************)
(* The DatabaseConnection singleton (db_connection.py lines 23-164) under  *)
(* its callers: connect attempt by attempt, is_connected and close.        *)
(* connected, client and collection are _connected, _client is not None    *)
(* and _collection is not None; returned is the value the last call gave.  *)
(***************************************************************************)
\* connect(self, max_retries=3), line 33
DefaultMaxRetries == 3
\* the values a call returns, and "raised" for an exception leaving it
ReturnValues == {"True", "False", "None", "raised"}

\* DatabaseConnection.__init__ (lines 26-31)
new_connection ==
    [pc |-> "idle", connected |-> FALSE, client |-> FALSE, collection |-> FALSE,
     op |-> "none", max_retries |-> 0, attempts |-> 0, returned |-> "None"]

\* a call has returned
call_returned(c, op, value) == [c EXCEPT !.pc = "returned", !.op = op, !.returned = value]

\* lines 35-38: connect returns at once when connected, enters the loop when
\* range(max_retries) is not empty, and falls off the end of the function
\* otherwise
connect_begun(c, max_retries) ==
    LET called == [c EXCEPT !.max_retries = max_retries, !.attempts = 0]
    IN  IF c.connected THEN call_returned(called, "connect", "True")
        ELSE IF max_retries > 0 THEN [called EXCEPT !.pc = "attempting", !.op = "connect"]
        ELSE call_returned(called, "connect", "None")

\* lines 41-51: the client is created and the ping answered
attempt_succeeded(c) ==
    call_returned([c EXCEPT !.attempts = c.attempts + 1, !.client = TRUE,
                            !.collection = TRUE, !.connected = TRUE],
                  "connect", "True")

\* lines 52-63: ConnectionFailure or OperationFailure at the ping; the client
\* has been assigned (line 41); the loop goes on or gives up
attempt_failed(c) ==
    LET tried == [c EXCEPT !.attempts = c.attempts + 1, !.client = TRUE]
    IN  IF tried.attempts < c.max_retries THEN tried
        ELSE call_returned([tried EXCEPT !.connected = FALSE], "connect", "False")

\* lines 41-44: an exception that is neither a ConnectionFailure nor an
\* OperationFailure leaves connect, raised by MongoClient(MONGODB_URI) before
\* the client is assigned or by the ping after it
attempt_raised(c, assigned) ==
    call_returned([c EXCEPT !.attempts = c.attempts + 1,
                            !.client = c.client \/ assigned],
                  "connect", "raised")

\* is_connected (lines 65-76)
is_connected_called(c, ping_ok) ==
    IF ~c.connected \/ ~c.client THEN call_returned(c, "is_connected", "False")
    ELSE IF ping_ok THEN call_returned(c, "is_connected", "True")
    ELSE call_returned([c EXCEPT !.connected = FALSE], "is_connected", "False")

\* close (lines 159-164)
close_called(c) ==
    IF c.client THEN call_returned([c EXCEPT !.connected = FALSE], "close", "None")
    ELSE call_returned(c, "close", "None")

InitConnection ==
    /\ tokenizer = FALSE
    /\ model = FALSE
    /\ model_loaded = FALSE
    /\ summarizer_loaded = FALSE
    /\ summarizer = FALSE
    /\ summarizer_model = FALSE
    /\ db_connected = FALSE
    /\ ops_collection = FALSE
    /\ pc = "off"
    /\ request = NoRequest
    /\ norm = NoNorm
    /\ extraction = NoExtraction
    /\ flight = NoFlight
    /\ crisis_events = NoEvents
    /\ reply = NoReply
    /\ generation = NoGeneration
    /\ scrape = NoScrape
    /\ connection = new_connection

Connecting == UNCHANGED <<pipeline_vars, norm, extraction, flight, crisis_events,
                          reply, generation, scrape>>

\* connect(max_retries) is called
connect ==
    /\ connection.pc = "idle"
    /\ \E max_retries \in 0..DefaultMaxRetries :
         connection' = connect_begun(connection, max_retries)
    /\ Connecting

attempt_succeeds ==
    /\ connection.pc = "attempting"
    /\ connection' = attempt_succeeded(connection)
    /\ Connecting

attempt_fails ==
    /\ connection.pc = "attempting"
    /\ connection' = attempt_failed(connection)
    /\ Connecting

attempt_raises ==
    /\ connection.pc = "attempting"
    /\ \E assigned \in BOOLEAN :
         connection' = attempt_raised(connection, assigned)
    /\ Connecting

\* is_connected() is called; the server answers the ping or not
is_connected_check ==
    /\ connection.pc = "idle"
    /\ \E ping_ok \in BOOLEAN :
         connection' = is_connected_called(connection, ping_ok)
    /\ Connecting

close ==
    /\ connection.pc = "idle"
    /\ connection' = close_called(connection)
    /\ Connecting

\* the caller goes on
call_done ==
    /\ connection.pc = "returned"
    /\ connection' = [connection EXCEPT !.pc = "idle"]
    /\ Connecting

NextConnection ==
    \/ connect
    \/ attempt_succeeds
    \/ attempt_fails
    \/ attempt_raises
    \/ is_connected_check
    \/ close
    \/ call_done

SpecConnection == InitConnection /\ [][NextConnection]_vars

(***************************************************************************)
(* Properties.                                                             *)
(***************************************************************************)
Answered_web == pc = "done" /\ request.path = "web"
HasCall(op) == \E i \in 1..Len(request.calls) : request.calls[i].op = op

\* the content string of a database item: text if present and non-empty,
\* else summary
ContentString(event) ==
    IF Truthy(event, "text") THEN event.text
    ELSE IF Truthy(event, "summary") THEN event.summary ELSE <<>>

\* C1: on the web path the context holds the content of every web item in
\* rank order, then the content string of at most the first 3 database items
\* in rank order; a 4th or later database item contributes nothing.
C1_EvidencePriority ==
    Answered_web =>
        LET ctx == request.context
            web == request.web_used
            db == request.context_data
            posW(i) == Find(ctx, web[i].content \o ContentSep)
            posD(j) == Find(ctx, ContentString(db[j]) \o ContentSep)
        IN  /\ \A i \in 1..Len(web) : posW(i) # 0
            /\ \A i, j \in 1..Len(web) : i < j => posW(i) < posW(j)
            /\ \A j \in 1..Len(db) :
                IF j <= 3
                THEN /\ posD(j) # 0
                     /\ \A i \in 1..Len(web) : posW(i) < posD(j)
                     /\ \A k \in 1..Len(db) : (k < j) => posD(k) < posD(j)
                ELSE ~Contains(ctx, ContentString(db[j]))
            /\ ~Contains(SubSeq(ctx, 1, IF Len(web) = 0 THEN 0
                                        ELSE posW(Len(web)) - 1),
                         <<"d", "b">>)

\* C1 witness: a web answer built from 2 web items and 4 database items
C1_Witness ==
    /\ Answered_web
    /\ Len(request.web_used) = 2
    /\ Len(request.context_data) = 4

\* C2: whenever compose returns an evidence-based answer whose citation list
\* is non-empty, the returned text ends with the marker line followed by one
\* line per citation, in order, on every path.
C2_CitationBlockAppended ==
    (pc = "done" /\ request.path \in {"web", "db"} /\ request.citations # <<>>)
        => EndsWith(request.text, SourcesMarker \o Join(request.citations, NL))

HasTitleAndSource(item) == Has(item, "title") /\ Has(item, "source")
HasTitle(item) == Has(item, "title")
\* the (title, source) pairs of the citations of a web answer
CitationPairs(web, db) ==
    LET w == SelectSeq(web, HasTitleAndSource)
        d == SelectSeq(Take(db, 3), HasTitle)
    IN  [i \in 1..(Len(w) + Len(d)) |->
            IF i <= Len(w) THEN [title |-> w[i].title, source |-> w[i].source]
            ELSE [title |-> d[i - Len(w)].title, source |-> Unknown]]

\* C3: for every answer composed with a citation block, the source
\* extraction of crisis_query returns exactly the citations of the block, in
\* order, and a main text without the marker.
C3_CitationRoundTrip ==
    (/\ pc = "done"
     /\ request.entry = "crisis_query"
     /\ request.path = "web"
     /\ Contains(request.composed, SourcesMarker))
        => /\ Len(request.sources) = Len(CitationPairs(request.web_used,
                                                       request.context_data))
           /\ \A i \in 1..Len(request.sources) :
                request.sources[i] = CitationPairs(request.web_used,
                                                   request.context_data)[i]
           /\ ~Contains(request.response, SourcesLiteral)

\* C4: when the database side fails while the web source returned items,
\* the query is still answered from the web evidence with an empty database
\* list, in both entry points.
C4_DatabaseFailureNonFatal ==
    (pc = "done" /\ request.web_data # <<>> /\ request.db_failed)
        => /\ ~request.error
           /\ request.path = "web"
           /\ request.context_data = <<>>

C6_EmptyEvidence ==
    (/\ pc = "done"
     /\ ~request.error
     /\ request.web_data = <<>>
     /\ request.context_data = <<>>)
        => /\ request.sources = <<>>
           /\ request.response # <<>>
           /\ Contains(request.response, request.query)
           /\ ~HasCall("generate")
           /\ ~HasCall("summarize")

LookupOps == {"embed", "vector_search", "text_search"}

\* C12: the web search is the first collaborator call of every request; when
\* it raises, the web list is empty, the database lookup is still made, and
\* the answer is an error answer only if the database side failed as well.
C12_WebFirst ==
    pc = "done" =>
        /\ request.calls[1].op = "web_search"
        /\ \A i \in 1..Len(request.calls) :
              request.calls[i].op \in LookupOps
                => \E j \in 1..(i - 1) : request.calls[j].op = "web_search"
        /\ request.web_failed
              => /\ request.web_data = <<>>
                 /\ HasCall("embed")
                 /\ ~request.db_failed
                       => (~request.error /\ HasCall("vector_search"))

\* C12 witness: the web search raised and the answer was given from the
\* documents of the database
C12_Witness ==
    /\ pc = "done"
    /\ request.web_failed
    /\ request.path = "db"
    /\ request.context_data # <<>>

\* C13: the database lookup is skipped exactly when the query matches the
\* high-priority pattern and the web source returned at least 2 items, in
\* both entry points.
C13_LookupDecision ==
    pc = "done" =>
        (~HasCall("embed")
            <=> (is_california_wildfire(request.query) /\ Len(request.web_data) >= 2))

\* the cap of the web search for a query: 5 for the high-priority pattern,
\* 3 otherwise
CapFor(query) == IF is_california_wildfire(query) THEN 5 ELSE 3

\* C14: the web search is called with cap 5 when the query matches the
\* high-priority pattern and with cap 3 otherwise, in both entry points, and
\* the composer never receives more web items than the cap.
C14_WebCap ==
    pc = "done" =>
        /\ request.calls[1] = Call("web_search", CapFor(request.query))
        /\ Len(request.web_used) <= CapFor(request.query)

\* the lines of the citation block of a composed text
BlockLines(text) ==
    SplitAll(From(text, Find(text, SourcesMarker) + Len(SourcesMarker)), NL, 1)

TokenStarts(s) == {i \in 1..Len(s) : IsAlnum(s[i]) /\ (i = 1 \/ ~IsAlnum(s[i - 1]))}
TokenAt(s, b) ==
    LET ends == {e \in b..Len(s) : e = Len(s) \/ ~IsAlnum(s[e + 1])}
    IN  LowerText(SubSeq(s, b, MinOf(ends)))
TokenBag(s) ==
    LET toks == {TokenAt(s, b) : b \in TokenStarts(s)}
    IN  [t \in toks |-> Cardinality({b \in TokenStarts(s) : TokenAt(s, b) = t})]

\* C7: the normalizer is lossless: the multiset of alphanumeric word tokens
\* of the output, compared case-insensitively, equals that of the input, and
\* the output never has fewer words than the input.
C7_Lossless ==
    norm.pc \in {"once", "twice"} =>
        /\ TokenBag(norm.once) = TokenBag(norm.text)
        /\ WordCount(norm.once) >= WordCount(norm.text)

\* C7 witness: a text of several words that the normalizer has changed
C7_Witness ==
    /\ norm.pc = "once"
    /\ norm.once # norm.text
    /\ WordCount(norm.text) >= 2
    /\ Cardinality(TokenStarts(norm.text)) >= 2

\* C8: in a body, a period immediately followed by a capital letter is a
\* sentence boundary, so the output separates the two sentences by a space.
C8_BoundaryResilience ==
    (norm.pc \in {"once", "twice"} /\ ~Contains(norm.text, Bold))
        => \A i \in 1..(Len(norm.once) - 2) :
              ~(/\ IsAlnum(norm.once[i])
                /\ norm.once[i + 1] = "."
                /\ IsUpper(norm.once[i + 2]))

\* C9: the citation block of the input, from the marker on, is the end of
\* the output, character for character.
C9_CitationBlockUnmodified ==
    (/\ norm.pc \in {"once", "twice"}
     /\ Contains(norm.text, SourcesMarker)
     /\ StartsWith(From(norm.text, Find(norm.text, SourcesMarker) + Len(SourcesMarker)),
                   <<"-", " ">>))
        => EndsWith(norm.once, From(norm.text, Find(norm.text, SourcesMarker)))

\* C10: normalizing the output of the normalizer changes nothing.
C10_Idempotent ==
    norm.pc = "twice" => norm.twice = norm.once

\* the lines that follow the first marker of a text, the white space around
\* the whole remainder not counted
LinesAfterMarker(text) ==
    SplitAll(Strip(From(text, Find(text, SourcesLiteral) + Len(SourcesLiteral))),
             NL, 1)
IsDashLine(line) == StartsWith(line, <<"-">>)
DashLines(text) == SelectSeq(LinesAfterMarker(text), IsDashLine)
\* a remainder that ends with a parenthesized group
GroupStart(rest) ==
    IF rest # <<>> /\ rest[Len(rest)] = ")" THEN RFind(rest, <<"(">>) ELSE 0
EntryOf(line) ==
    LET rest == Strip(Tail(line))
        k == GroupStart(rest)
    IN  IF k > 0
        THEN [title |-> Strip(SubSeq(rest, 1, k - 1)),
              source |-> Strip(SubSeq(rest, k + 1, Len(rest) - 1))]
        ELSE [title |-> rest, source |-> Unknown]

\* C15: when the marker is present, every line after it that starts with
\* "-" yields exactly one source entry, in line order: (title, source) when
\* the remainder ends with a parenthesized group, (remainder, "Unknown")
\* otherwise; the number of sources is the number of "-" lines.
C15_EveryDashLineExtracted ==
    (extraction.pc = "out" /\ Contains(extraction.text, SourcesLiteral))
        => /\ Len(extraction.result.sources) = Len(DashLines(extraction.text))
           /\ \A i \in 1..Len(DashLines(extraction.text)) :
                extraction.result.sources[i] = EntryOf(DashLines(extraction.text)[i])

\* C16: when the marker is absent, crisis_query returns the full text
\* unchanged together with a source list of length 0, not a missing value.
C16_MarkerAbsent ==
    (extraction.pc = "out" /\ ~Contains(extraction.text, SourcesLiteral))
        => /\ extraction.result.response = extraction.text
           /\ extraction.result.sources = <<>>
           /\ ~extraction.result.sources_none

\* a query is processed in the step that takes a handler from "idle" to
\* "done" (crisis_query or llm_response)
QueryProcessed == pc = "idle" /\ pc' = "done"

\* C17: processing a query leaves the fields model, tokenizer, model_loaded,
\* summarizer_loaded and summarizer of the shared LLMResponseGenerator as
\* they were before the query.
C17_NoSharedStateCrossesQueries ==
    [][QueryProcessed =>
           UNCHANGED <<model, tokenizer, model_loaded, summarizer_loaded,
                       summarizer>>]_vars

\* C18: every call of find_and_respond eventually returns a result, also
\* when a collaborator call is never answered.
C18_NeverHangs ==
    (flight.at \notin {"off", "idle", "returned"}) ~> (flight.at = "returned")

\* C19: PUT on an existing event with any valid update data, changing the
\* stored values or not, returns 200 with the stored event holding every
\* field of the update, and PUT on a non-existent id returns 404 and
\* changes nothing (the database being available).
C19_UpdateReflected ==
    /\ [](  (reply.op = "PUT" /\ reply.available /\ reply.existed)
            => /\ reply.status = 200
               /\ \A field \in DOMAIN reply.sent :
                    /\ crisis_events[reply.event_id][field] = reply.sent[field]
                    /\ reply.body[field] = reply.sent[field])
    /\ [][(reply'.op = "PUT" /\ reply'.available /\ ~reply'.existed)
            => (reply'.status = 404 /\ crisis_events' = crisis_events)]_vars

\* C20: after DELETE has answered 204 the event is gone, and GET answers 404
\* for every id that is not stored, so every later GET of the id answers 404
\* until an event with that id is inserted again by POST; DELETE of a
\* non-existent id answers 404 and removes no event.
C20_DeletedStaysGone ==
    /\ []((reply.op = "DELETE" /\ reply.status = 204)
            => (reply.existed /\ reply.event_id \notin DOMAIN crisis_events))
    /\ []((reply.op = "GET" /\ reply.event_id \notin DOMAIN crisis_events)
            => reply.status = 404)
    /\ [][\A event_id \in EventIds :
            (event_id \notin DOMAIN crisis_events /\ event_id \in DOMAIN crisis_events')
                => (reply'.op = "POST" /\ reply'.event_id = event_id)]_vars
    /\ [][(reply'.op = "DELETE" /\ ~reply'.existed)
            => (reply'.status = 404 /\ crisis_events' = crisis_events)]_vars
C20_Witness ==
    /\ reply.op = "DELETE"
    /\ reply.status = 204
    /\ reply.existed
    /\ reply.event_id \notin DOMAIN crisis_events
    /\ DOMAIN crisis_events # {}

\* an answer composed from evidence without the language model
Fallback ==
    /\ pc = "done"
    /\ request.path \in {"web", "db"}
    /\ request.branch # "llm"

\* the raw context of the fallback: the combined content string
RawContext ==
    IF request.path = "web" THEN request.context
    ELSE db_content(request.context_data, 1)

SummarizerRaised == request.branch \in {"truncated", "exception"}

\* what the summarizer returns for a text when it does not raise
SummarizerOutput(text) ==
    IF WordCount(text) < SummaryMinLength THEN text ELSE SumOk.text

\* C21: when evidence is non-empty and the language model gives no answer,
\* the composed text starts with the header "**Information about {query}**"
\* and a blank line; its body is the summarizer's output when the combined
\* context has more than 50 words, and the raw context itself otherwise, on
\* the web path and on the database-only path alike.
C21_FallbackSummaryOrRaw ==
    Fallback =>
        IF WordCount(RawContext) > WebSummaryThreshold
        THEN ~SummarizerRaised =>
                StartsWith(request.composed,
                           info_header(request.query) \o SummarizerOutput(RawContext))
        ELSE \/ StartsWith(request.composed, info_header(request.query) \o RawContext)
             \/ StartsWith(request.composed,
                           info_header(request.query) \o Strip(RawContext))

\* C22: if the summarizer raises during the fallback, the composed text is
\* the header followed by the first 300 whitespace-separated words of the raw
\* context, with "..." appended exactly when the context had more than 300
\* words, on the web path and on the database-only path alike.
C22_FallbackTruncation ==
    (Fallback /\ SummarizerRaised) =>
        request.composed =
            info_header(request.query) \o truncate_words(RawContext, TruncateWords, FALSE)

\* the body of a text: what follows the header and precedes the citation block
BodyOf(text) == sources_split(header_split(text).content).processed_content
\* the body of the normalized text, between the header and the citation block
\* of the input, which the normalizer copies
BodyOfOutput(text, output) ==
    LET hs == header_split(text)
        ss == sources_split(hs.content)
    IN  SubSeq(output, Len(hs.header) + 1, Len(output) - Len(ss.sources_section))

\* the sentences of a body: the maximal runs ended by '.', '!' or '?' plus
\* whitespace, or by the end of the body, that are not blank
SentencesOf(body) ==
    LET parts == re_split(body)
        Sentence(i) == i % 2 = 1 /\ Strip(parts[i]) # <<>>
    IN  [k \in 1..Cardinality({i \in 1..Len(parts) : Sentence(i)}) |->
            LET i == CHOOSE j \in 1..Len(parts) :
                        /\ Sentence(j)
                        /\ Cardinality({h \in 1..j : Sentence(h)}) = k
            IN  Strip(parts[i])]

NoLetter == ""
\* the first alphabetic character of a sentence
FirstAlpha(s) ==
    LET letters == {i \in 1..Len(s) : IsAlpha(s[i])}
    IN  IF letters = {} THEN NoLetter ELSE s[MinOf(letters)]

\* C23: for every sentence of the body, the normalized text has the
\* sentence's first alphabetic character in upper case if the sentence does
\* not begin with a quotation mark, and has the first alphabetic character of
\* a sentence that begins with a quotation mark exactly as in the input.
C23_SentenceCapitalization ==
    norm.pc \in {"once", "twice"} =>
        LET sin == SentencesOf(BodyOf(norm.text))
            sout == SentencesOf(BodyOfOutput(norm.text, norm.once))
        IN  Len(sin) = Len(sout) =>
                \A k \in 1..Len(sin) :
                    IF StartsWithQuote(sin[k])
                    THEN FirstAlpha(sout[k]) = FirstAlpha(sin[k])
                    ELSE FirstAlpha(sin[k]) # NoLetter
                            => IsUpper(FirstAlpha(sout[k]))

\* the instruction sentence every prompt of the composer carries
InstructionText ==
    IF generation.path = "web"
    THEN <<"b", "a", "s", "e", "d", " ", "o", "n", "l", "y", " ", "o", "n", " ", "t", "h", "e", " ", "f", "o", "l", "l", "o", "w", "i", "n", "g">>
    ELSE <<"B", "a", "s", "e", "d", " ", "o", "n", " ", "t", "h", "e", " ", "f", "o", "l", "l", "o", "w", "i", "n", "g">>

\* the citation block the composer of the path appends
GenerationBlock ==
    IF generation.path = "web" THEN sources_block(generation.sources) ELSE <<>>

CallArgs(op) == {request.calls[i].arg : i \in {j \in 1..Len(request.calls) : request.calls[j].op = op}}
CallCount(op) == Cardinality({i \in 1..Len(request.calls) : request.calls[i].op = op})

\* C25: the vector search is called with limit equal to the max_results of
\* the query; the text search is called, with the same limit, exactly when
\* the vector search returned nothing, and then its result is the database
\* list handed to the composer.
C25_LookupSequence ==
    (pc = "done" /\ HasCall("vector_search")) =>
        /\ CallArgs("vector_search") = {request.max_results}
        /\ HasCall("text_search") => CallArgs("text_search") = {request.max_results}
        /\ CallCount("text_search") <= 1
        /\ ~HasCall("text_search") => request.context_data # <<>>
        /\ Len(request.context_data) <= request.max_results

C27_AvailabilityFollowsConnection ==
    (pc = "done" /\ HasCall("vector_search") /\ db_connected)
        => (ops_collection /\ ~request.db_failed)

\* a handler composes an answer from evidence in this step
Composes == pc = "idle" /\ pc' = "done" /\ request'.path \in {"web", "db"}
\* the position of the first call of an operation in the call log, 0 if none
FirstCall(calls, op) ==
    LET at == {i \in 1..Len(calls) : calls[i].op = op}
    IN  IF at = {} THEN 0 ELSE MinOf(at)

\* C28: model_loaded and summarizer_loaded never go from TRUE back to FALSE;
\* a compose call invokes _load_model exactly once while model_loaded is
\* FALSE, also after an earlier load has failed, and never once it is TRUE;
\* the load comes before the summarizer is used.
C28_LazyLoadMonotonic ==
    /\ [][(model_loaded => model_loaded')
          /\ (summarizer_loaded => summarizer_loaded')]_vars
    /\ [][Composes =>
            LET calls == request'.calls
                loads == Cardinality({i \in 1..Len(calls) : calls[i].op = "load_model"})
            IN  /\ loads = (IF model_loaded THEN 0 ELSE 1)
                /\ (FirstCall(calls, "summarize") # 0 /\ loads = 1)
                      => FirstCall(calls, "load_model") < FirstCall(calls, "summarize")]_vars

\* C28 witness: an answer composed with the loaded model in place, without
\* another load
C28_Witness ==
    /\ pc = "done"
    /\ request.path \in {"web", "db"}
    /\ model_loaded
    /\ ~HasCall("load_model")

\* the web searches of the request, in call order
WebSearches == SelectSeq(request.calls, LAMBDA c : c.op = "web_search")

\* generate_response has been called: by find_and_respond unless the lookup
\* raised, by the /api/llm-response handler when it had evidence
GenerateResponseCalled ==
    /\ pc = "done"
    /\ ~request.error
    /\ request.entry = "crisis_query" \/ request.path # "none"

\* C29: generate_response called with both evidence lists empty performs
\* exactly one more web search, with cap 5; if that search returns an item
\* the answer is composed from its items on the web path, otherwise the
\* no-information message is returned; called with a non-empty list it
\* performs no web search.
C29_RetryWebSearch ==
    GenerateResponseCalled =>
        IF request.web_data = <<>> /\ request.context_data = <<>>
        THEN /\ Len(WebSearches) = 2
             /\ WebSearches[2].arg = RetryWebResults
             /\ Len(request.web_used) <= RetryWebResults
             /\ IF request.web_used # <<>>
                THEN /\ request.path = "web"
                     /\ request.context = web_content(request.web_used, 1)
                ELSE /\ request.path = "none"
                     /\ request.text = no_information(request.query)
        ELSE /\ Len(WebSearches) = 1
             /\ request.web_used = request.web_data
             /\ request.path = (IF request.web_data # <<>> THEN "web" ELSE "db")

\* C29 witness: both lists were empty and the second search found an item,
\* from which the answer was composed
C29_Witness ==
    /\ pc = "done"
    /\ request.entry = "crisis_query"
    /\ ~request.error
    /\ request.web_data = <<>>
    /\ request.context_data = <<>>
    /\ request.web_used # <<>>
    /\ request.path = "web"

\* a call of connect has returned a value
ConnectReturned ==
    /\ connection.pc = "returned"
    /\ connection.op = "connect"
    /\ connection.returned # "raised"

====
